---- MODULE Spec2Model ----
(***************************************************************************)
(* State-machine model of the Nano Banana client (src/App.tsx, the App     *)
(* component of lines 1236-2085) together with the provider operations it  *)
(* calls (src/unnamed/part_007, src/services/geminiService.ts).            *)
(* SpecAssembly and SpecAssemblyV1 run the prompt assembly of              *)
(* handleImageGeneration alone, as this component (lines 1452-1482) and    *)
(* as the first variant of the file (lines 179-192) compute it.            *)
(* SpecVideo and SpecCredentials are sessions of the same component;       *)
(* SpecSelectedKey and SpecSingleKey follow the key handling of the older  *)
(* Apps (src/App.tsx 478-1235, src/unnamed/part_009); SpecHistory is the   *)
(* history log around HistoryItem (src/types.ts).                          *)
(*                                                                         *)
(* Text is modelled as a sequence of tokens.  A token is a non-empty       *)
(* string; the token " " stands for a run of white space.  The empty       *)
(* sequence is the empty string (also JavaScript's null for the error      *)
(* slot).                                                                  *)
(***************************************************************************)
EXTENDS Integers, Sequences, FiniteSets, TLC

None == "none"
NoIndex == -1      \* null where the other values are numbers

\* ---------------------------------------------------------------- bounds
MaxBlobs == 3        \* object URLs created by URL.createObjectURL
MaxPolls == 3        \* getVideosOperation calls per video request
MaxInflight == 2     \* provider calls outstanding at the same time
MaxProductImages == 1
HistoryCapacity == 3     \* N, the capacity of the history log
MaxAppends == 4          \* generations appended to the history log
MaxReleases == 3         \* releases of one handle followed in a history session

\* ------------------------------------------------------------ text helpers
WS == " "
Sep == ", "

RECURSIVE TrimLeft(_)
TrimLeft(s) == IF s # <<>> /\ Head(s) = WS THEN TrimLeft(Tail(s)) ELSE s

RECURSIVE TrimRight(_)
TrimRight(s) ==
    IF s # <<>> /\ s[Len(s)] = WS THEN TrimRight(SubSeq(s, 1, Len(s) - 1)) ELSE s

Trim(s) == TrimRight(TrimLeft(s))

RECURSIVE Render(_)
Render(s) == IF s = <<>> THEN "" ELSE Head(s) \o Render(Tail(s))

\* `${a}, ${b}` when a is truthy, else b
JoinClause(a, b) == IF a # <<>> THEN a \o <<Sep>> \o b ELSE b

\* ------------------------------------------------------------ input domains
Modes == {"image", "video", "recipe", "linkRecipe", "speech", "productShot"}
Providers == {"gemini", "openrouter"}

UrlTokens == {"https://example.com/tarta"}
ManagedKey == <<"aistudio_managed_key">>

\* The inputs a session draws from.  The model explores one session per
\* environment: what the user types, uploads and clicks on (modes, prompts,
\* similarity buttons, flags, images, texts to translate, key entry), what
\* localStorage holds at startup and whether window.aistudio exists.
\* track switches on the bookkeeping of rt (see below).
EnvEdit ==
    [ name |-> "edit", modes |-> {"image"},
      prompts |-> { <<WS>>, <<"a red bicycle">> },
      sims |-> {50, 100}, flags |-> TRUE,
      images |-> {"img1"}, texts |-> { <<"hola mundo">> },
      keys |-> { <<"k1">> }, providers |-> {"gemini"}, clear |-> FALSE,
      storedGemini |-> { <<"k1">> }, storedOpenRouter |-> { <<>> },
      studio |-> {FALSE}, track |-> FALSE ]

EnvMedia ==
    [ name |-> "media", modes |-> Modes,
      prompts |-> { <<"a red bicycle", WS>>, <<"https://example.com/tarta">> },
      sims |-> {}, flags |-> FALSE,
      images |-> {"img1"}, texts |-> {},
      keys |-> { <<"k1">> }, providers |-> {"gemini"}, clear |-> FALSE,
      storedGemini |-> { <<"k1">> }, storedOpenRouter |-> { <<>> },
      studio |-> {FALSE}, track |-> FALSE ]

EnvKeys ==
    [ name |-> "keys", modes |-> {"image", "recipe"},
      prompts |-> { <<"a red bicycle">> },
      sims |-> {}, flags |-> FALSE,
      images |-> {}, texts |-> { <<"hola mundo">> },
      keys |-> { <<WS>>, <<WS, "k1", WS>> }, providers |-> Providers, clear |-> TRUE,
      storedGemini |-> { <<>>, <<"k1">> }, storedOpenRouter |-> { <<>>, <<"k1">> },
      studio |-> BOOLEAN, track |-> FALSE ]

EnvSwitch ==
    [ name |-> "switch", modes |-> {"image", "recipe"},
      prompts |-> { <<"a red bicycle">> },
      sims |-> {50}, flags |-> FALSE,
      images |-> {"img1"}, texts |-> { <<"hola mundo">> },
      keys |-> { <<"k1">> }, providers |-> {"gemini"}, clear |-> FALSE,
      storedGemini |-> { <<"k1">> }, storedOpenRouter |-> { <<>> },
      studio |-> {FALSE}, track |-> TRUE ]

EnvVideo ==
    [ name |-> "video", modes |-> {"image", "video"},
      prompts |-> { <<"a red bicycle">> },
      sims |-> {}, flags |-> FALSE,
      images |-> {}, texts |-> {},
      keys |-> { <<"k2">> }, providers |-> {"gemini"}, clear |-> TRUE,
      storedGemini |-> { <<"k1">> }, storedOpenRouter |-> { <<>> },
      studio |-> {FALSE}, track |-> FALSE ]

Environments == { EnvEdit, EnvMedia, EnvKeys, EnvSwitch, EnvVideo }

\* new URL(url) succeeds
IsValidUrl(s) == Len(s) = 1 /\ s[1] \in UrlTokens


\* ------------------------------------------------------- prompt assembly
PERSON_ACTIONS ==
    <<"caminando", "leyendo un libro", "mirando el cielo",
      "sentado en un banco", "bailando", "tomando una foto">>

NoSimilarity == 0
SIMILARITY_SUGGESTIONS == {25, 50, 75, 100}

RemoveTextPrompt == "remove any text from the image"

SimilarityPrompt_BandsSwapped(similarity) ==
    CASE similarity = 25 ->
           "use the original image as a loose inspiration for the new image"
      [] similarity = 50 ->
           "apply the changes described while maintaining a strong resemblance to the original image's style and composition"
      [] similarity = 75 ->
           "apply the changes described, but feel free to creatively reinterpret the original image"
      [] similarity = 100 ->
           "make only the changes described and keep the rest of the image identical to the original"
      [] OTHER -> ""

\* the switch of handleImageGeneration; "" when no case matches
SimilarityPrompt(similarity) ==
    CASE similarity = 25 ->
           "use the original image as a loose inspiration for the new image"
      [] similarity = 50 ->
           "apply the changes described, but feel free to creatively reinterpret the original image"
      [] similarity = 75 ->
           "apply the changes described while maintaining a strong resemblance to the original image's style and composition"
      [] similarity = 100 ->
           "make only the changes described and keep the rest of the image identical to the original"
      [] OTHER -> ""

PersonToAdd_FallbackOnly(suggestion, k) ==
    <<"una persona " \o PERSON_ACTIONS[k]>>

\* contextualPersonSuggestion || `una persona ${PERSON_ACTIONS[k]}`
PersonToAdd(suggestion, k) ==
    IF suggestion # <<>> THEN suggestion
    ELSE <<"una persona " \o PERSON_ACTIONS[k]>>

WithPerson(p, addPerson, suggestion, k) ==
    IF addPerson THEN JoinClause(p, PersonToAdd(suggestion, k)) ELSE p

WithRemoveText(p, removeText) ==
    IF removeText THEN JoinClause(p, <<RemoveTextPrompt>>) ELSE p

WithSimilarity_Dropped(p, singleImageData, similarity) == p

WithSimilarity(p, singleImageData, similarity) ==
    IF singleImageData # None /\ similarity # NoSimilarity
          /\ SimilarityPrompt(similarity) # ""
    THEN JoinClause(p, <<SimilarityPrompt(similarity)>>)
    ELSE p

AssemblePrompt_SimilarityFirst(prompt, addPerson, suggestion, k, removeText, singleImageData, similarity) ==
    WithRemoveText(
        WithPerson(
            WithSimilarity(Trim(prompt), singleImageData, similarity),
            addPerson, suggestion, k),
        removeText)

\* finalPrompt of handleImageGeneration; k is the Math.random() draw
AssemblePrompt(prompt, addPerson, suggestion, k, removeText, singleImageData, similarity) ==
    WithSimilarity(
        WithRemoveText(
            WithPerson(Trim(prompt), addPerson, suggestion, k),
            removeText),
        singleImageData, similarity)

\* finalPrompt of the first variant of handleImageGeneration, which appends
\* the percentage itself: finalPrompt += ` *similar (${similarity}%)*`
AssemblePromptV1(prompt, addPerson, suggestion, k, removeText, similarity) ==
    LET p == WithRemoveText(WithPerson(Trim(prompt), addPerson, suggestion, k), removeText)
    IN IF similarity # NoSimilarity
       THEN p \o <<" *similar (" \o ToString(similarity) \o "%)*">>
       ELSE p

\* ------------------------------------------------- error classification
ToLower(tok) ==
    CASE tok = "RESOURCE_EXHAUSTED" -> "resource_exhausted"
      [] tok = "Quota" -> "quota"
      [] tok = "API key is invalid" -> "api key is invalid"
      [] OTHER -> tok

AuthTriggers ==
    { "api key not found", "api key is invalid",
      "requested entity was not found", "permission", "quota",
      "resource_exhausted", "invalid api key" }

\* errText.includes(trigger) for one of the triggers of callApiService
IsAuthOrQuotaText(msg) ==
    \E i \in 1..Len(msg) : ToLower(msg[i]) \in AuthTriggers

AuthNotice ==
    <<"The provided API key has exceeded its quota, is invalid, or lacks permissions. Please clear it and try another.">>

MissingKeyError(provider) ==
    IF provider = "gemini"
    THEN <<"Please provide a Gemini API key to proceed.">>
    ELSE <<"Please provide an OpenRouter API key to proceed.">>

\* ------------------------------------------------------ provider results
\* kind is the error kind of the provider's failure (the taxonomy of the
\* provider boundary); the client only ever sees msg.
Ok(payload) == [ok |-> TRUE, payload |-> payload, kind |-> "ok", msg |-> <<>>]
Fail(kind, msg) == [ok |-> FALSE, payload |-> <<>>, kind |-> kind, msg |-> msg]

SdkErrors ==
    { Fail("AuthOrQuota", <<"[429] ", "RESOURCE_EXHAUSTED">>),
      Fail("Transient", <<"[503] The model is overloaded">>) }

Outcomes(op) ==
    CASE op = "generateImage" ->
           { Ok(<<"b64img">>),
             Fail("Empty", <<"Image generation failed: ", "I lack ", "permission", " to depict this person">>),
             Fail("Empty", <<"Image generation failed to produce an image.">>) }
           \cup SdkErrors
      [] op = "generateProductShot" ->
           { Ok(<<"b64a">>), Ok(<<"b64a", "b64b">>),
             Fail("Empty", <<"Product shot generation failed to produce any images.">>) }
           \cup SdkErrors
      [] op = "analyzeImage" ->
           { Ok(<<"un surfista caminando por la arena">>), Ok(<<>>) } \cup SdkErrors
      [] op = "generateRecipe" ->
           { Ok(<<"## Tarta">>), Ok(<<>>) } \cup SdkErrors
      [] op = "translateText" ->
           { Ok(<<"hello world">>), Ok(<<>>) } \cup SdkErrors
      [] op = "generateSpeech" ->
           { Ok(<<"b64pcm">>),
             Fail("Empty", <<"Speech generation failed to produce audio.">>) }
           \cup SdkErrors
      [] op = "generateRecipeFromLink" ->
           { Ok(<<"## Tarta">>),
             Fail("UserInput", <<"Could not get recipe from URL: ", "the page is over the free ", "Quota">>),
             Fail("UserInput", <<"Extracted data is not a valid recipe. Please try another URL.">>) }
           \cup SdkErrors
      [] OTHER -> SdkErrors


\* ------------------------------------------------------------------ state
VARIABLES
    mode, prompt, similarity, removeText, addPerson, singleImageData,
    productImages, isLoading, assetUrls, assetType, error, isAnalyzing,
    contextualPersonSuggestion, textToTranslate, translationResult,
    isTranslating,
    apiProvider, hasKey, keyInput, localStorage,
    isStudioEnvironment, studioStartup, studioDialog,
    previousAssetUrls, blobRevokes, inflight,
    invalidated, keyRevoked, keyCleared, rt, env, asm,
    history, storedHistory, histClock,
    selectedImageIndex, preview, unmounted

vars ==
    << mode, prompt, similarity, removeText, addPerson, singleImageData,
       productImages, isLoading, assetUrls, assetType, error, isAnalyzing,
       contextualPersonSuggestion, textToTranslate, translationResult,
       isTranslating, apiProvider, hasKey, keyInput, localStorage,
       isStudioEnvironment, studioStartup, studioDialog,
       previousAssetUrls, blobRevokes, inflight, invalidated, keyRevoked, keyCleared,
       rt, env, asm, history, storedHistory, histClock,
       selectedImageIndex, preview, unmounted >>

\* The component state of one render, as a record the handlers transform.
\*   hasKey        hasGeminiApiKey / hasOpenRouterApiKey
\*   keyInput      geminiApiKeyInput / openRouterApiKeyInput
\*   localStorage  the items 'gemini-api-key' / 'openrouter-api-key'
\*   blobRevokes   blobRevokes[h] = number of URL.revokeObjectURL calls made
\*                 on object URL h; its length is the number created
\*   inflight      provider calls awaiting their response
Cur ==
    [ mode |-> mode, prompt |-> prompt, similarity |-> similarity,
      removeText |-> removeText, addPerson |-> addPerson,
      singleImageData |-> singleImageData, productImages |-> productImages,
      isLoading |-> isLoading, assetUrls |-> assetUrls,
      assetType |-> assetType, error |-> error, isAnalyzing |-> isAnalyzing,
      contextualPersonSuggestion |-> contextualPersonSuggestion,
      textToTranslate |-> textToTranslate,
      translationResult |-> translationResult,
      isTranslating |-> isTranslating,
      apiProvider |-> apiProvider, hasKey |-> hasKey, keyInput |-> keyInput,
      localStorage |-> localStorage,
      isStudioEnvironment |-> isStudioEnvironment,
      studioStartup |-> studioStartup, studioDialog |-> studioDialog,
      previousAssetUrls |-> previousAssetUrls, blobRevokes |-> blobRevokes,
      inflight |-> inflight ]

Commit(s) ==
    /\ mode' = s.mode
    /\ prompt' = s.prompt
    /\ similarity' = s.similarity
    /\ removeText' = s.removeText
    /\ addPerson' = s.addPerson
    /\ singleImageData' = s.singleImageData
    /\ productImages' = s.productImages
    /\ isLoading' = s.isLoading
    /\ assetUrls' = s.assetUrls
    /\ assetType' = s.assetType
    /\ error' = s.error
    /\ isAnalyzing' = s.isAnalyzing
    /\ contextualPersonSuggestion' = s.contextualPersonSuggestion
    /\ textToTranslate' = s.textToTranslate
    /\ translationResult' = s.translationResult
    /\ isTranslating' = s.isTranslating
    /\ apiProvider' = s.apiProvider
    /\ hasKey' = s.hasKey
    /\ keyInput' = s.keyInput
    /\ localStorage' = s.localStorage
    /\ isStudioEnvironment' = s.isStudioEnvironment
    /\ studioStartup' = s.studioStartup
    /\ studioDialog' = s.studioDialog
    /\ previousAssetUrls' = s.previousAssetUrls
    /\ blobRevokes' = s.blobRevokes
    /\ inflight' = s.inflight

hasActiveApiKey(s) == s.hasKey[s.apiProvider]

\* -------------------------------------------------------------- requests
NoInputs ==
    [ prompt |-> <<>>, addPerson |-> FALSE, removeText |-> FALSE,
      similarity |-> NoSimilarity, suggestion |-> <<>>, k |-> 1 ]

FreeId(reqs) == CHOOSE i \in 1..(Cardinality(reqs) + 1) : \A r \in reqs : r.id # i

\* one call of a provider operation: the providerConfig read at dispatch
\* (provider, apiKey), the arguments (prompt, image) and the position of the
\* awaiting flow (stage; polls / nonterm count getVideosOperation calls and
\* their "not done" answers; keyUsed is the key the latest call to the
\* provider was made with).  origin and inputs record the mode and the
\* inputs of the render that issued the call.
NewRequest(s, op, prm, img, inputs) ==
    [ id |-> FreeId(s.inflight), op |-> op, origin |-> s.mode,
      provider |-> s.apiProvider, apiKey |-> s.localStorage[s.apiProvider],
      prompt |-> prm, image |-> img, inputs |-> inputs,
      stage |-> IF op = "generateVideo" THEN "submit" ELSE "call",
      polls |-> 0, nonterm |-> 0,
      keyUsed |-> s.localStorage[s.apiProvider] ]

\* ------------------------------------------------------------ credentials
handleClearKey_KeepsItem(s, provider) ==
    [ s EXCEPT !.hasKey[provider] = FALSE,
               !.keyInput[provider] = <<>> ]

handleClearKey(s, provider) ==
    [ s EXCEPT !.localStorage[provider] = <<>>,
               !.hasKey[provider] = FALSE,
               !.keyInput[provider] = <<>> ]

handleSaveKey_Untrimmed(s, provider) ==
    IF Trim(s.keyInput[provider]) # <<>>
    THEN [ s EXCEPT !.localStorage[provider] = s.keyInput[provider],
                    !.hasKey[provider] = TRUE,
                    !.error = <<>> ]
    ELSE [ s EXCEPT !.error = <<"Please enter a valid API key.">> ]

handleSaveKey(s, provider) ==
    IF Trim(s.keyInput[provider]) # <<>>
    THEN [ s EXCEPT !.localStorage[provider] = Trim(s.keyInput[provider]),
                    !.hasKey[provider] = TRUE,
                    !.error = <<>> ]
    ELSE [ s EXCEPT !.error = <<"Please enter a valid API key.">> ]

callApiService_KeepsError(s, op, prm, img, inputs) ==
    IF s.localStorage[s.apiProvider] = <<>>
    THEN [ s EXCEPT !.error = MissingKeyError(s.apiProvider),
                    !.hasKey[s.apiProvider] = FALSE ]
    ELSE [ s EXCEPT !.inflight = @ \cup {NewRequest(s, op, prm, img, inputs)} ]

\* callApiService up to the await: the key is read from localStorage
callApiService(s, op, prm, img, inputs) ==
    IF s.localStorage[s.apiProvider] = <<>>
    THEN [ s EXCEPT !.error = MissingKeyError(s.apiProvider),
                    !.hasKey[s.apiProvider] = FALSE ]
    ELSE [ s EXCEPT !.error = <<>>,
                    !.inflight = @ \cup {NewRequest(s, op, prm, img, inputs)} ]

Dispatched(s, s2) == s2.inflight # s.inflight

\* the catch block of callApiService, for a call issued with r.provider
callApiServiceCatch(s, r, msg) ==
    IF IsAuthOrQuotaText(msg)
    THEN handleClearKey([s EXCEPT !.error = AuthNotice], r.provider)
    ELSE [ s EXCEPT !.error = msg ]


\* ---------------------------------------------------------------- assets
\* an entry of assetUrls: a data: URL or recipe text (content), or a blob:
\* object URL (handle > 0); origin is the mode whose request produced it
Asset(scheme, content, handle, origin) ==
    [ scheme |-> scheme, content |-> content, handle |-> handle, origin |-> origin ]

RECURSIVE DataUrls(_, _)
DataUrls(payload, origin) ==
    IF payload = <<>> THEN <<>>
    ELSE <<Asset("data", Head(payload), 0, origin)>> \o DataUrls(Tail(payload), origin)

\* urls.forEach(url => { if (url.startsWith('blob:')) URL.revokeObjectURL(url) })
RECURSIVE RevokeAll(_, _)
RevokeAll(revokes, urls) ==
    IF urls = <<>> THEN revokes
    ELSE LET u == Head(urls)
             r == IF u.scheme = "blob"
                  THEN [revokes EXCEPT ![u.handle] = @ + 1]
                  ELSE revokes
         IN RevokeAll(r, Tail(urls))

\* useEffect(..., [assetUrls]): when assetUrls was replaced, React first
\* runs the cleanup returned by the previous run of the effect (which closes
\* over the previous assetUrls), then the body
AssetUrlsEffect(old, new) ==
    IF new.assetUrls # old.assetUrls
    THEN [ new EXCEPT
             !.blobRevokes =
                 RevokeAll(RevokeAll(new.blobRevokes, old.assetUrls),
                           old.previousAssetUrls),
             !.previousAssetUrls = new.assetUrls ]
    ELSE new

\* useEffect(..., [singleImageData, mode, hasActiveApiKey, apiProvider, ...])
AnalyzeEffectBody(s) ==
    IF s.mode # "image" \/ ~hasActiveApiKey(s)
    THEN [ s EXCEPT !.contextualPersonSuggestion = <<>>, !.isAnalyzing = FALSE ]
    ELSE IF s.singleImageData # None
    THEN LET s1 == [ s EXCEPT !.isAnalyzing = TRUE,
                              !.contextualPersonSuggestion = <<>>,
                              !.error = <<>> ]
             s2 == callApiService(s1, "analyzeImage", <<>>, s.singleImageData, NoInputs)
         IN IF Dispatched(s1, s2) THEN s2
            ELSE [ s2 EXCEPT !.isAnalyzing = FALSE,
                             !.contextualPersonSuggestion = <<>> ]
    ELSE [ s EXCEPT !.contextualPersonSuggestion = <<>>, !.isAnalyzing = FALSE ]

AnalyzeEffect(old, new) ==
    IF \/ new.singleImageData # old.singleImageData
       \/ new.mode # old.mode
       \/ hasActiveApiKey(new) # hasActiveApiKey(old)
       \/ new.apiProvider # old.apiProvider
    THEN AnalyzeEffectBody(new)
    ELSE new

\* the effects React runs after the render that follows a handler
RunEffects(old, new) == AnalyzeEffect(old, AssetUrlsEffect(old, new))

\* ------------------------------------------------------------- generation
\* setIsLoading(true); setAssetUrls([]); setAssetType(null);
\* await callApiService(...) -- and, when no call was made, the handler's
\* tail on the null result
StartMain(s, op, prm, img, inputs) ==
    LET s1 == [ s EXCEPT !.isLoading = TRUE, !.assetUrls = <<>>, !.assetType = None ]
        s2 == callApiService(s1, op, prm, img, inputs)
    IN IF Dispatched(s1, s2) THEN s2 ELSE [ s2 EXCEPT !.isLoading = FALSE ]

ImageInputs(s, k) ==
    [ prompt |-> s.prompt, addPerson |-> s.addPerson, removeText |-> s.removeText,
      similarity |-> s.similarity, suggestion |-> s.contextualPersonSuggestion,
      k |-> k ]

handleImageGeneration(s, k) ==
    LET finalPrompt ==
            AssemblePrompt(s.prompt, s.addPerson, s.contextualPersonSuggestion, k,
                           s.removeText, s.singleImageData, s.similarity)
    IN IF Trim(finalPrompt) = <<>> /\ s.singleImageData = None
       THEN [ s EXCEPT !.error = <<"Please enter a prompt or upload an image to edit.">> ]
       ELSE StartMain(s, "generateImage", finalPrompt, s.singleImageData, ImageInputs(s, k))

handleVideoGeneration(s) ==
    IF Trim(s.prompt) = <<>>
    THEN [ s EXCEPT !.error = <<"Please enter a prompt to generate a video.">> ]
    ELSE StartMain(s, "generateVideo", s.prompt, s.singleImageData, NoInputs)

handleRecipeGeneration(s) ==
    IF Trim(s.prompt) = <<>>
    THEN [ s EXCEPT !.error = <<"Please enter a prompt to generate a recipe.">> ]
    ELSE StartMain(s, "generateRecipe", s.prompt, None, NoInputs)

handleRecipeFromLinkGeneration(s) ==
    LET url == Trim(s.prompt)
    IN IF url = <<>>
       THEN [ s EXCEPT !.error = <<"Por favor, introduce una URL para extraer una receta.">> ]
       ELSE IF ~IsValidUrl(url)
       THEN [ s EXCEPT !.error = <<"Por favor, introduce una URL valida.">> ]
       ELSE StartMain(s, "generateRecipeFromLink", url, None, NoInputs)

handleSpeechGeneration(s) ==
    IF Trim(s.prompt) = <<>>
    THEN [ s EXCEPT !.error = <<"Please enter text to generate speech.">> ]
    ELSE StartMain(s, "generateSpeech", s.prompt, None, NoInputs)

handleProductShotGeneration(s) ==
    IF Len(s.productImages) = 0
    THEN [ s EXCEPT !.error = <<"Por favor, sube una o mas imagenes de producto.">> ]
    ELSE StartMain(s, "generateProductShot", s.prompt, None, NoInputs)

handleTranslateClick(s) ==
    IF Trim(s.textToTranslate) = <<>>
    THEN [ s EXCEPT !.error = <<"Please enter text to translate.">> ]
    ELSE LET s1 == [ s EXCEPT !.isTranslating = TRUE, !.translationResult = <<>> ]
             s2 == callApiService(s1, "translateText", s.textToTranslate, None, NoInputs)
         IN IF Dispatched(s1, s2) THEN s2 ELSE [ s2 EXCEPT !.isTranslating = FALSE ]

handleGenerate(s, k) ==
    CASE s.mode = "image" -> handleImageGeneration(s, k)
      [] s.mode = "video" -> handleVideoGeneration(s)
      [] s.mode = "recipe" -> handleRecipeGeneration(s)
      [] s.mode = "linkRecipe" -> handleRecipeFromLinkGeneration(s)
      [] s.mode = "speech" -> handleSpeechGeneration(s)
      [] s.mode = "productShot" -> handleProductShotGeneration(s)

\* const objectUrl = URL.createObjectURL(blob); setAssetUrls([objectUrl])
WithObjectUrl(s, r, type) ==
    [ s EXCEPT !.blobRevokes = Append(@, 0),
               !.assetUrls = <<Asset("blob", "", Len(s.blobRevokes) + 1, r.origin)>>,
               !.assetType = type ]

\* the part of the handler that runs after `await callApiService(...)`;
\* result is the value the call resolved to, <<>> for null / undefined / ""
Continue(s, r, result) ==
    CASE r.op = "generateImage" ->
           [ (IF result # <<>>
              THEN [ s EXCEPT !.assetUrls = DataUrls(result, r.origin), !.assetType = "image" ]
              ELSE s) EXCEPT !.isLoading = FALSE ]
      [] r.op = "generateVideo" ->
           [ (IF result # <<>> THEN WithObjectUrl(s, r, "video") ELSE s)
             EXCEPT !.isLoading = FALSE ]
      [] r.op = "generateRecipe" ->
           [ (IF result # <<>>
              THEN [ s EXCEPT !.assetUrls = <<Asset("text", result[1], 0, r.origin)>>,
                              !.assetType = "recipe" ]
              ELSE s) EXCEPT !.isLoading = FALSE ]
      [] r.op = "generateRecipeFromLink" ->
           [ (IF result # <<>>
              THEN [ s EXCEPT !.assetUrls = <<Asset("text", result[1], 0, r.origin)>>,
                              !.assetType = "recipe" ]
              ELSE s) EXCEPT !.isLoading = FALSE ]
      [] r.op = "generateSpeech" ->
           [ (IF result # <<>> THEN WithObjectUrl(s, r, "audio") ELSE s)
             EXCEPT !.isLoading = FALSE ]
      [] r.op = "generateProductShot" ->
           [ (IF result # <<>>
              THEN [ s EXCEPT !.assetUrls = DataUrls(result, r.origin),
                              !.assetType = "productShot" ]
              ELSE s) EXCEPT !.isLoading = FALSE ]
      [] r.op = "translateText" ->
           [ (IF result # <<>> THEN [ s EXCEPT !.translationResult = result ] ELSE s)
             EXCEPT !.isTranslating = FALSE ]
      [] r.op = "analyzeImage" ->
           [ (IF result # <<>> THEN [ s EXCEPT !.contextualPersonSuggestion = result ] ELSE s)
             EXCEPT !.isAnalyzing = FALSE ]

\* the awaited provider call of r resolved with payload
Resolve(s, r, payload) ==
    Continue([ s EXCEPT !.inflight = @ \ {r} ], r, payload)

\* the awaited provider call of r threw Error(msg)
Reject(s, r, msg) ==
    Continue(callApiServiceCatch([ s EXCEPT !.inflight = @ \ {r} ], r, msg), r, <<>>)

handleModeChange(s, newMode) ==
    IF newMode # s.mode
    THEN [ s EXCEPT !.mode = newMode, !.prompt = <<>>, !.similarity = NoSimilarity,
                    !.removeText = FALSE, !.singleImageData = None,
                    !.productImages = <<>>, !.assetUrls = <<>>, !.assetType = None,
                    !.error = <<>>, !.addPerson = FALSE,
                    !.contextualPersonSuggestion = <<>>,
                    !.textToTranslate = <<>>, !.translationResult = <<>> ]
    ELSE s

\* ------------------------------------------------------- render conditions
isProviderCompatibleWithMode(s) ==
    \/ s.apiProvider = "gemini"
    \/ s.mode = "image"
    \/ s.mode \in {"recipe"}

imageGenCanGenerate_AnyImage(s) ==
    /\ s.mode = "image"
    /\ (Len(Trim(s.prompt)) > 0 \/ s.singleImageData # None)

imageGenCanGenerate(s) ==
    /\ s.mode = "image"
    /\ \/ Len(Trim(s.prompt)) > 0
       \/ /\ s.singleImageData # None
          /\ (s.removeText \/ s.addPerson \/ s.similarity # NoSimilarity)

canGenerate(s) ==
    /\ hasActiveApiKey(s)
    /\ isProviderCompatibleWithMode(s)
    /\ \/ s.mode = "image" /\ s.apiProvider = "gemini" /\ imageGenCanGenerate(s)
       \/ s.mode = "recipe" /\ Len(Trim(s.prompt)) > 0
       \/ s.mode = "video" /\ s.apiProvider = "gemini" /\ Len(Trim(s.prompt)) > 0
       \/ s.mode = "productShot" /\ s.apiProvider = "gemini" /\ Len(s.productImages) > 0
       \/ s.mode = "linkRecipe" /\ s.apiProvider = "gemini" /\ Len(Trim(s.prompt)) > 0
       \/ s.mode = "speech" /\ s.apiProvider = "gemini" /\ Len(Trim(s.prompt)) > 0

GenerateButtonEnabled_IgnoresTranslating(s) == ~(s.isLoading \/ ~canGenerate(s))

\* disabled attribute of the Generate and Translate buttons
GenerateButtonEnabled(s) == ~(s.isLoading \/ s.isTranslating \/ ~canGenerate(s))
TranslateButtonEnabled(s) ==
    /\ s.mode = "image"
    /\ ~(s.isTranslating \/ s.isLoading \/ Trim(s.textToTranslate) = <<>>)

\* a ModeButton is disabled for the modes OpenRouter does not serve
ModeButtonEnabled(s, targetMode) ==
    ~(s.apiProvider = "openrouter"
        /\ targetMode \in {"video", "speech", "productShot", "linkRecipe"})


\* ------------------------------------------------------- video operation
\* answers of generateVideos / getVideosOperation: the operation is not
\* done, or done with a download link, or done without one (with or
\* without error.message; "failedRights" is a failure whose message happens
\* to hold one of the classifier's words)
OperationStates == {"pending", "success", "failed", "failedRights", "failedNoMessage"}

VideoFailureText(opState) ==
    CASE opState = "failed" -> <<"Video blocked by the safety filter">>
      [] opState = "failedRights" ->
           <<"The prompt needs the depicted person's ", "permission">>
      [] OTHER -> <<"Video generation failed to produce a download link.">>

DownloadFailureText == <<"Failed to download video. Status: ", "403 Forbidden">>

\* generateVideo from an operation value on: `while (!operation.done)`,
\* then the download link check.  r2 is the request with its counters
\* already updated.
AfterOperation_IgnoresDone(s, r, r2, opState) ==
    IF opState \in {"pending", "success"}
    THEN [ s EXCEPT !.inflight = (@ \ {r}) \cup {[r2 EXCEPT !.stage = "polling"]} ]
    ELSE Reject(s, r, VideoFailureText(opState))

AfterOperation(s, r, r2, opState) ==
    IF opState = "pending"
    THEN [ s EXCEPT !.inflight = (@ \ {r}) \cup {[r2 EXCEPT !.stage = "polling"]} ]
    ELSE IF opState = "success"
    THEN [ s EXCEPT !.inflight = (@ \ {r}) \cup {[r2 EXCEPT !.stage = "download"]} ]
    ELSE Reject(s, r, VideoFailureText(opState))

\* the key getVideosOperation is called with: the one of getAiClient(apiKey)
KeyPresented_Reread(s, r) == s.localStorage[r.provider]

KeyPresented(s, r) == r.apiKey

Polled(r, opState) ==
    [ r EXCEPT !.polls = @ + 1,
               !.nonterm = IF opState = "pending" THEN @ + 1 ELSE @ ]

\* ----------------------------------------------------------------- ghosts
\* invalidated: providers whose key was removed because one of their calls
\*   failed with an auth/quota-classified error, and for which no key has
\*   been saved or selected since.
\* keyRevoked: some call failed with an auth/quota-classified error and no
\*   key at all has been saved or selected since.
\* keyCleared: some stored key was removed (by the Clear button or by a
\*   failed call) and no key at all has been saved or selected since.
\* rt: follows a switch of mode from A to B and straight back to A; snap is
\*   A's state before the first switch.
ModeState(s) ==
    [ prompt |-> s.prompt, similarity |-> s.similarity,
      removeText |-> s.removeText, addPerson |-> s.addPerson,
      singleImageData |-> s.singleImageData, productImages |-> s.productImages,
      assetUrls |-> s.assetUrls, assetType |-> s.assetType,
      textToTranslate |-> s.textToTranslate,
      translationResult |-> s.translationResult, error |-> s.error ]

NoRT == [ phase |-> 0, from |-> None, snap |-> <<>> ]

RtAfterSwitch(newMode) ==
    IF rt.phase = 1 /\ newMode = rt.from
    THEN [ rt EXCEPT !.phase = 2 ]
    ELSE IF env.track
    THEN [ phase |-> 1, from |-> mode, snap |-> <<ModeState(Cur)>> ]
    ELSE NoRT

NoEvent == [ type |-> "none", provider |-> None ]
Supplied(p) == [ type |-> "supplied", provider |-> p ]
Revoked(p) == [ type |-> "revoked", provider |-> p ]
Cleared(p) == [ type |-> "cleared", provider |-> p ]

RejectEvent(r, msg) ==
    IF IsAuthOrQuotaText(msg) THEN Revoked(r.provider) ELSE NoEvent

\* ---------------------------------------------------------------- actions
\* selectedImageIndex (null is NoIndex), the ImageUploader's preview (its object
\* URL, 0 for null) and unmounted are left alone by the handlers of App
\* other than those of the image viewer.
Viewer == << selectedImageIndex, preview, unmounted >>

\* the render s2 and its effects are committed
CommitStep(s2, rt2, ev) ==
       /\ Cardinality(s2.inflight) <= MaxInflight
       /\ Commit(s2)
       /\ rt' = rt2
       /\ invalidated' =
             CASE ev.type = "revoked" -> invalidated \cup {ev.provider}
               [] ev.type = "supplied" -> invalidated \ {ev.provider}
               [] OTHER -> invalidated
       /\ keyRevoked' =
             CASE ev.type = "revoked" -> TRUE
               [] ev.type = "supplied" -> FALSE
               [] OTHER -> keyRevoked
       /\ keyCleared' =
             CASE ev.type \in {"revoked", "cleared"} -> TRUE
               [] ev.type = "supplied" -> FALSE
               [] OTHER -> keyCleared
       /\ UNCHANGED <<env, asm, history, storedHistory, histClock>>

Step(new, rt2, ev) == CommitStep(RunEffects(Cur, new), rt2, ev) /\ UNCHANGED Viewer

MainView == hasActiveApiKey(Cur)

isCurrentModeIncompatibleWithProvider == ~isProviderCompatibleWithMode(Cur)

SetPrompt(p) ==
    /\ MainView /\ ~isLoading /\ p # prompt
    /\ Step([Cur EXCEPT !.prompt = p], NoRT, NoEvent)

handleSuggestionClick(s, percentage) ==
    [ s EXCEPT !.similarity = IF s.similarity = percentage THEN NoSimilarity ELSE percentage ]

ToggleSimilarity(percentage) ==
    /\ MainView /\ mode = "image" /\ ~isLoading
    /\ Step(handleSuggestionClick(Cur, percentage), NoRT, NoEvent)

ToggleRemoveText ==
    /\ MainView /\ mode = "image" /\ ~isLoading /\ env.flags
    /\ Step([Cur EXCEPT !.removeText = ~removeText], NoRT, NoEvent)

ToggleAddPerson ==
    /\ MainView /\ mode = "image" /\ ~(isLoading \/ isAnalyzing) /\ env.flags
    /\ Step([Cur EXCEPT !.addPerson = ~addPerson], NoRT, NoEvent)

UploaderEnabled ==
    /\ MainView /\ mode \in {"image", "video"}
    /\ ~(isLoading \/ isTranslating \/ isCurrentModeIncompatibleWithProvider)

UploadImage(img) ==
    /\ UploaderEnabled /\ img # singleImageData
    /\ Step([Cur EXCEPT !.singleImageData = img], NoRT, NoEvent)

RemoveImage ==
    /\ UploaderEnabled /\ singleImageData # None
    /\ Step([Cur EXCEPT !.singleImageData = None], NoRT, NoEvent)

AddProductImage(img) ==
    /\ MainView /\ mode = "productShot"
    /\ ~(isLoading \/ isCurrentModeIncompatibleWithProvider)
    /\ Len(productImages) < MaxProductImages
    /\ Step([Cur EXCEPT !.productImages = Append(@, img)], NoRT, NoEvent)

RemoveProductImage ==
    /\ MainView /\ mode = "productShot"
    /\ ~(isLoading \/ isCurrentModeIncompatibleWithProvider)
    /\ Len(productImages) > 0
    /\ Step([Cur EXCEPT !.productImages = Tail(@)], NoRT, NoEvent)

SetTextToTranslate(t) ==
    /\ MainView /\ mode = "image" /\ ~(isLoading \/ isTranslating)
    /\ t # textToTranslate
    /\ Step([Cur EXCEPT !.textToTranslate = t], NoRT, NoEvent)

\* object URLs the session may still create stay within MaxBlobs
BlobBudget ==
    mode \in {"video", "speech"} => Len(blobRevokes) < MaxBlobs

Generate(k) ==
    /\ MainView /\ GenerateButtonEnabled(Cur) /\ BlobBudget
    /\ Step(handleGenerate(Cur, k), NoRT, NoEvent)

Translate ==
    /\ MainView /\ TranslateButtonEnabled(Cur)
    /\ Step(handleTranslateClick(Cur), NoRT, NoEvent)

ModeChange(newMode) ==
    /\ MainView /\ ModeButtonEnabled(Cur, newMode) /\ newMode # mode
    /\ Step(handleModeChange(Cur, newMode), RtAfterSwitch(newMode), NoEvent)

ClearKey ==
    /\ env.clear
    /\ Step(handleClearKey(Cur, apiProvider), NoRT,
            IF localStorage[apiProvider] # <<>> THEN Cleared(apiProvider) ELSE NoEvent)

SaveGeminiKey(text) ==
    /\ ~MainView /\ apiProvider = "gemini"
    /\ Step(handleSaveKey([Cur EXCEPT !.keyInput["gemini"] = text], "gemini"), NoRT,
            IF Trim(text) # <<>> THEN Supplied("gemini") ELSE NoEvent)

SaveOpenRouterKey(text) ==
    /\ ~MainView /\ apiProvider = "openrouter"
    /\ Step(handleSaveKey([Cur EXCEPT !.keyInput["openrouter"] = text], "openrouter"), NoRT,
            IF Trim(text) # <<>> THEN Supplied("openrouter") ELSE NoEvent)

SetApiProvider(p) ==
    /\ ~MainView /\ p # apiProvider
    /\ Step([Cur EXCEPT !.apiProvider = p], NoRT, NoEvent)

\* handleSelectKeyFromStudio up to `await window.aistudio.openSelectKey()`
SelectKeyFromStudio ==
    /\ ~MainView /\ apiProvider = "gemini" /\ isStudioEnvironment /\ ~studioDialog
    /\ Step([Cur EXCEPT !.error = <<>>, !.studioDialog = TRUE], NoRT, NoEvent)

StudioDialogClosed_FlagOnly ==
    /\ studioDialog
    /\ Step([Cur EXCEPT !.studioDialog = FALSE, !.hasKey["gemini"] = TRUE],
            NoRT, Supplied("gemini"))

\* ... and after it
StudioDialogClosed ==
    /\ studioDialog
    /\ Step([Cur EXCEPT !.studioDialog = FALSE,
                        !.localStorage["gemini"] = ManagedKey,
                        !.hasKey["gemini"] = TRUE],
            NoRT, Supplied("gemini"))

\* the .then() of window.aistudio.hasSelectedApiKey() of the startup effect
StartupCheckResolved(keySelected) ==
    /\ studioStartup
    /\ Step(IF keySelected
            THEN [Cur EXCEPT !.studioStartup = FALSE,
                             !.localStorage["gemini"] = ManagedKey,
                             !.hasKey["gemini"] = TRUE]
            ELSE [Cur EXCEPT !.studioStartup = FALSE],
            NoRT,
            IF keySelected THEN Supplied("gemini") ELSE NoEvent)

\* the provider answers a call other than the video operation
ProviderAnswers(r, o) ==
    /\ r \in inflight /\ r.stage = "call" /\ o \in Outcomes(r.op)
    /\ IF o.ok
       THEN Step(Resolve(Cur, r, o.payload), NoRT, NoEvent)
       ELSE Step(Reject(Cur, r, o.msg), NoRT, RejectEvent(r, o.msg))

\* ai.models.generateVideos(request) returns the operation
VideoSubmitted(r, opState) ==
    /\ r \in inflight /\ r.stage = "submit"
    /\ Step(AfterOperation(Cur, r, r, opState), NoRT, NoEvent)

\* one turn of the polling loop: the sleep, then getVideosOperation
VideoPolled_GivesUp(r, opState) ==
    /\ r \in inflight /\ r.stage = "polling"
    /\ Step(IF opState = "pending"
            THEN Reject(Cur, r, <<"Video generation timed out.">>)
            ELSE AfterOperation(Cur, r, Polled(r, opState), opState),
            NoRT, NoEvent)

VideoPolled(r, opState) ==
    /\ r \in inflight /\ r.stage = "polling"
    /\ opState = "pending" => r.polls + 1 < MaxPolls
    /\ Step(AfterOperation(Cur, r,
                            [Polled(r, opState) EXCEPT !.keyUsed = KeyPresented(Cur, r)],
                            opState),
            NoRT, NoEvent)

\* generateVideos or getVideosOperation throws
VideoCallFailed(r, o) ==
    /\ r \in inflight /\ r.stage \in {"submit", "polling"} /\ o \in SdkErrors
    /\ Step(Reject(Cur, r, o.msg), NoRT, RejectEvent(r, o.msg))

\* fetch(`${downloadLink}&key=${apiKey}`) resolves
VideoDownloaded(r, ok) ==
    /\ r \in inflight /\ r.stage = "download"
    /\ IF ok
       THEN Step(Resolve(Cur, r, <<"blob">>), NoRT, NoEvent)
       ELSE Step(Reject(Cur, r, DownloadFailureText), NoRT,
                 RejectEvent(r, DownloadFailureText))

\* ------------------------------------------------------------------- spec
NoAsm == [ done |-> FALSE, out |-> <<>>, k |-> 1 ]

\* the state after the first render and its effects (the startup effect
\* has read localStorage)
InitSession(sessions) ==
    /\ env \in sessions
    /\ mode = "image" /\ prompt = <<>> /\ similarity = NoSimilarity
    /\ removeText = FALSE /\ addPerson = FALSE /\ singleImageData = None
    /\ productImages = <<>> /\ isLoading = FALSE /\ assetUrls = <<>>
    /\ assetType = None /\ error = <<>> /\ isAnalyzing = FALSE
    /\ contextualPersonSuggestion = <<>> /\ textToTranslate = <<>>
    /\ translationResult = <<>> /\ isTranslating = FALSE
    /\ apiProvider = "gemini"
    /\ keyInput = [p \in Providers |-> <<>>]
    /\ \E g \in env.storedGemini, o \in env.storedOpenRouter :
          localStorage = [p \in Providers |-> IF p = "gemini" THEN g ELSE o]
    /\ hasKey = [p \in Providers |-> localStorage[p] # <<>>]
    /\ isStudioEnvironment \in env.studio
    /\ studioStartup = (isStudioEnvironment /\ localStorage["gemini"] = <<>>)
    /\ studioDialog = FALSE
    /\ previousAssetUrls = <<>> /\ blobRevokes = <<>> /\ inflight = {}
    /\ invalidated = {} /\ keyRevoked = FALSE /\ keyCleared = FALSE
    /\ rt = NoRT /\ asm = NoAsm
    /\ history = <<>> /\ storedHistory = <<>> /\ histClock = 0
    /\ selectedImageIndex = NoIndex /\ preview = 0 /\ unmounted = FALSE

Init == InitSession(Environments)

Next ==
    \/ \E p \in env.prompts : SetPrompt(p)
    \/ \E b \in env.sims : ToggleSimilarity(b)
    \/ ToggleRemoveText
    \/ ToggleAddPerson
    \/ \E img \in env.images : UploadImage(img)
    \/ RemoveImage
    \/ \E img \in env.images : AddProductImage(img)
    \/ RemoveProductImage
    \/ \E t \in env.texts \cup {<<>>} : SetTextToTranslate(t)
    \/ \E k \in 1..Len(PERSON_ACTIONS) : Generate(k)
    \/ Translate
    \/ \E m \in env.modes : ModeChange(m)
    \/ ClearKey
    \/ \E t \in env.keys : SaveGeminiKey(t)
    \/ \E t \in env.keys : SaveOpenRouterKey(t)
    \/ \E p \in env.providers : SetApiProvider(p)
    \/ SelectKeyFromStudio
    \/ StudioDialogClosed
    \/ \E b \in BOOLEAN : StartupCheckResolved(b)
    \/ \E r \in inflight : \E o \in Outcomes(r.op) : ProviderAnswers(r, o)
    \/ \E r \in inflight : \E st \in OperationStates : VideoSubmitted(r, st)
    \/ \E r \in inflight : \E st \in OperationStates : VideoPolled(r, st)
    \/ \E r \in inflight : \E o \in SdkErrors : VideoCallFailed(r, o)
    \/ \E r \in inflight : \E ok \in BOOLEAN : VideoDownloaded(r, ok)

Spec == Init /\ [][Next]_vars

\* A video session whose awaited calls and timers all come back: the event
\* loop runs the continuation of every settled promise, so a pending
\* generateVideos, getVideosOperation or fetch is eventually answered.
InitVideo == Init /\ env = EnvVideo

NextVideo ==
    \/ \E p \in env.prompts : SetPrompt(p)
    \/ \E k \in 1..Len(PERSON_ACTIONS) : Generate(k)
    \/ \E m \in env.modes : ModeChange(m)
    \/ ClearKey
    \/ \E t \in env.keys : SaveGeminiKey(t)
    \/ \E r \in inflight : \E o \in Outcomes(r.op) : ProviderAnswers(r, o)
    \/ \E r \in inflight : \E st \in OperationStates : VideoSubmitted(r, st)
    \/ \E r \in inflight : \E st \in OperationStates : VideoPolled(r, st)
    \/ \E r \in inflight : \E o \in SdkErrors : VideoCallFailed(r, o)
    \/ \E r \in inflight : \E ok \in BOOLEAN : VideoDownloaded(r, ok)

VideoTurn ==
    \E r \in inflight :
       \/ \E st \in OperationStates : VideoSubmitted(r, st) \/ VideoPolled(r, st)
       \/ \E o \in SdkErrors : VideoCallFailed(r, o)
       \/ \E ok \in BOOLEAN : VideoDownloaded(r, ok)

SpecVideo == InitVideo /\ [][NextVideo]_vars /\ WF_vars(VideoTurn)

\* The sessions about keys: both providers with every combination of stored
\* keys, and the video session in which the key is cleared and replaced.
InitCredentials == Init /\ env \in {EnvKeys, EnvVideo}

NextCredentials ==
    \/ \E p \in env.prompts : SetPrompt(p)
    \/ \E t \in env.texts \cup {<<>>} : SetTextToTranslate(t)
    \/ \E k \in 1..Len(PERSON_ACTIONS) : Generate(k)
    \/ Translate
    \/ \E m \in env.modes : ModeChange(m)
    \/ ClearKey
    \/ \E t \in env.keys : SaveGeminiKey(t)
    \/ \E t \in env.keys : SaveOpenRouterKey(t)
    \/ \E p \in env.providers : SetApiProvider(p)
    \/ SelectKeyFromStudio
    \/ StudioDialogClosed
    \/ \E b \in BOOLEAN : StartupCheckResolved(b)
    \/ \E r \in inflight : \E o \in Outcomes(r.op) : ProviderAnswers(r, o)
    \/ \E r \in inflight : \E st \in OperationStates : VideoSubmitted(r, st)
    \/ \E r \in inflight : \E st \in OperationStates : VideoPolled(r, st)
    \/ \E r \in inflight : \E o \in SdkErrors : VideoCallFailed(r, o)
    \/ \E r \in inflight : \E ok \in BOOLEAN : VideoDownloaded(r, ok)

SpecCredentials == InitCredentials /\ [][NextCredentials]_vars

\* The image-editing session: one stored key, Image mode, with the source
\* image, the similarity bands and the two flags.
InitEdit == Init /\ env = EnvEdit

NextEdit ==
    \/ \E p \in env.prompts : SetPrompt(p)
    \/ \E b \in env.sims : ToggleSimilarity(b)
    \/ ToggleRemoveText
    \/ ToggleAddPerson
    \/ \E img \in env.images : UploadImage(img)
    \/ RemoveImage
    \/ \E t \in env.texts \cup {<<>>} : SetTextToTranslate(t)
    \/ \E k \in 1..Len(PERSON_ACTIONS) : Generate(k)
    \/ Translate
    \/ \E t \in env.keys : SaveGeminiKey(t)
    \/ \E r \in inflight : \E o \in Outcomes(r.op) : ProviderAnswers(r, o)

SpecEdit == InitEdit /\ [][NextEdit]_vars

\* The sessions that go through the modes and their inputs.
\* the media session taken one group of modes at a time, and the switch session
InputSessions ==
    { [EnvMedia EXCEPT !.modes = {"image", "recipe", "linkRecipe"}],
      [EnvMedia EXCEPT !.modes = {"image", "productShot"}],
      [EnvMedia EXCEPT !.modes = {"speech"}, !.images = {}],
      [EnvMedia EXCEPT !.modes = {"video"}, !.images = {}],
      [EnvSwitch EXCEPT !.track = FALSE] }

InitInputs == InitSession(InputSessions)

NextInputs ==
    \/ \E p \in env.prompts : SetPrompt(p)
    \/ \E b \in env.sims : ToggleSimilarity(b)
    \/ \E img \in env.images : UploadImage(img)
    \/ RemoveImage
    \/ \E img \in env.images : AddProductImage(img)
    \/ RemoveProductImage
    \/ \E t \in env.texts \cup {<<>>} : SetTextToTranslate(t)
    \/ \E k \in 1..Len(PERSON_ACTIONS) : Generate(k)
    \/ Translate
    \/ \E m \in env.modes : ModeChange(m)
    \/ \E t \in env.keys : SaveGeminiKey(t)
    \/ \E r \in inflight : \E o \in Outcomes(r.op) : ProviderAnswers(r, o)
    \/ \E r \in inflight : \E st \in OperationStates : VideoSubmitted(r, st)
    \/ \E r \in inflight : \E st \in OperationStates : VideoPolled(r, st)
    \/ \E r \in inflight : \E o \in SdkErrors : VideoCallFailed(r, o)
    \/ \E r \in inflight : \E ok \in BOOLEAN : VideoDownloaded(r, ok)

SpecInputs == InitInputs /\ [][NextInputs]_vars


\* ------------------------------------------------- prompt assembly alone
\* Image mode with a key present and every combination of the inputs of
\* handleImageGeneration; Assemble computes finalPrompt as the handler does.
AsmPrompts == { <<>>, <<WS>>, <<"a red bicycle">>, <<WS, "a red bicycle", WS>> }
AsmSuggestions == { <<>>, <<"un surfista caminando por la arena">> }

InitAssembly ==
    /\ env = EnvEdit
    /\ mode = "image" /\ prompt \in AsmPrompts
    /\ similarity \in SIMILARITY_SUGGESTIONS \cup {NoSimilarity}
    /\ removeText \in BOOLEAN /\ addPerson \in BOOLEAN
    /\ singleImageData \in {None, "img1"}
    /\ productImages = <<>> /\ isLoading = FALSE /\ assetUrls = <<>>
    /\ assetType = None /\ error = <<>> /\ isAnalyzing = FALSE
    /\ contextualPersonSuggestion \in
          (IF singleImageData = None THEN {<<>>} ELSE AsmSuggestions)
    /\ textToTranslate = <<>> /\ translationResult = <<>> /\ isTranslating = FALSE
    /\ apiProvider = "gemini"
    /\ keyInput = [p \in Providers |-> <<>>]
    /\ localStorage = [p \in Providers |-> IF p = "gemini" THEN <<"k1">> ELSE <<>>]
    /\ hasKey = [p \in Providers |-> localStorage[p] # <<>>]
    /\ isStudioEnvironment = FALSE /\ studioStartup = FALSE /\ studioDialog = FALSE
    /\ previousAssetUrls = <<>> /\ blobRevokes = <<>> /\ inflight = {}
    /\ invalidated = {} /\ keyRevoked = FALSE /\ keyCleared = FALSE
    /\ rt = NoRT /\ asm = NoAsm
    /\ history = <<>> /\ storedHistory = <<>> /\ histClock = 0
    /\ selectedImageIndex = NoIndex /\ preview = 0 /\ unmounted = FALSE

Assemble(k) ==
    /\ ~asm.done
    /\ asm' = [ done |-> TRUE,
                out |-> AssemblePrompt(prompt, addPerson, contextualPersonSuggestion, k,
                                       removeText, singleImageData, similarity),
                k |-> k ]
    /\ UNCHANGED << mode, prompt, similarity, removeText, addPerson, singleImageData,
                    productImages, isLoading, assetUrls, assetType, error, isAnalyzing,
                    contextualPersonSuggestion, textToTranslate, translationResult,
                    isTranslating, apiProvider, hasKey, keyInput, localStorage,
                    isStudioEnvironment, studioStartup, studioDialog,
                    previousAssetUrls, blobRevokes, inflight, invalidated, keyRevoked,
                    keyCleared, rt, env, history, storedHistory, histClock, Viewer >>

NextAssembly == \E k \in 1..Len(PERSON_ACTIONS) : Assemble(k)

SpecAssembly == InitAssembly /\ [][NextAssembly]_vars

AssembleV1(k) ==
    /\ ~asm.done
    /\ asm' = [ done |-> TRUE,
                out |-> AssemblePromptV1(prompt, addPerson, contextualPersonSuggestion, k,
                                         removeText, similarity),
                k |-> k ]
    /\ UNCHANGED << mode, prompt, similarity, removeText, addPerson, singleImageData,
                    productImages, isLoading, assetUrls, assetType, error, isAnalyzing,
                    contextualPersonSuggestion, textToTranslate, translationResult,
                    isTranslating, apiProvider, hasKey, keyInput, localStorage,
                    isStudioEnvironment, studioStartup, studioDialog,
                    previousAssetUrls, blobRevokes, inflight, invalidated, keyRevoked,
                    keyCleared, rt, env, history, storedHistory, histClock, Viewer >>

NextAssemblyV1 == \E k \in 1..Len(PERSON_ACTIONS) : AssembleV1(k)

SpecAssemblyV1 == InitAssembly /\ [][NextAssemblyV1]_vars

\* ------------------------------------------------------------ history log
\* The log of completed generations (HistoryItem of src/types.ts), kept
\* newest first in `history` and persisted in `storedHistory`.
MakeItem(s, t) ==
    [ id |-> t, mode |-> s.mode, prompt |-> s.prompt, assetUrls |-> s.assetUrls,
      assetType |-> s.assetType, translationResult |-> s.translationResult,
      timestamp |-> t ]

Truncate(log) == SubSeq(log, 1, IF Len(log) < HistoryCapacity THEN Len(log) ELSE HistoryCapacity)

\* append(item): prepend, then truncate to capacity
append_DropsNewestKept(log, item) ==
    IF Len(log) < HistoryCapacity THEN <<item>> \o log ELSE <<item>> \o Tail(log)

append(log, item) == Truncate(<<item>> \o log)

\* selectForReplay(item): the visible output fields go back to the session
selectForReplay(s, item) ==
    [ s EXCEPT !.mode = item.mode, !.prompt = item.prompt,
               !.assetUrls = item.assetUrls, !.assetType = item.assetType,
               !.translationResult = item.translationResult,
               !.error = <<>> ]

HistoryModes == {"image", "speech"}

OpOfMode(m) == IF m = "image" THEN "generateImage" ELSE "generateSpeech"

PayloadOfMode(m) == IF m = "image" THEN <<"b64img">> ELSE <<"b64pcm">>

HistStep(new) ==
    /\ \A h \in DOMAIN blobRevokes : blobRevokes[h] < MaxReleases
    /\ Commit(new)
    /\ UNCHANGED <<invalidated, keyRevoked, keyCleared, rt, env, asm, Viewer>>

\* a generation of mode m runs to completion (the handler's two renders and
\* their effects) and its result is appended and persisted
CompleteAndAppend(m) ==
    /\ histClock < MaxAppends
    /\ LET r == [ op |-> OpOfMode(m), origin |-> m ]
           s0 == [ Cur EXCEPT !.mode = m, !.prompt = <<"a red bicycle">>,
                              !.assetUrls = <<>>, !.assetType = None,
                              !.translationResult = <<>>, !.error = <<>> ]
           e0 == RunEffects(Cur, s0)
           s1 == Continue(e0, r, PayloadOfMode(m))
           e1 == RunEffects(e0, s1)
       IN /\ HistStep(e1)
          /\ history' = append(history, MakeItem(e1, histClock + 1))
    /\ storedHistory' = history'
    /\ histClock' = histClock + 1

\* clear(): empty the log and purge durable storage
HistoryClear ==
    /\ history # <<>>
    /\ history' = <<>> /\ storedHistory' = <<>>
    /\ HistStep(Cur)
    /\ UNCHANGED histClock

\* the session restarts: a fresh component, load() reads the durable store
HistoryReload ==
    /\ assetUrls # <<>>
    /\ HistStep(RunEffects(Cur, [ Cur EXCEPT !.mode = "image", !.prompt = <<>>,
                                             !.assetUrls = <<>>, !.assetType = None,
                                             !.translationResult = <<>>, !.error = <<>> ]))
    /\ history' = storedHistory
    /\ UNCHANGED << storedHistory, histClock >>

\* the user picks the i-th card of the history panel
SelectForReplay(i) ==
    /\ i \in DOMAIN history
    /\ HistStep(RunEffects(Cur, selectForReplay(Cur, history[i])))
    /\ UNCHANGED << history, storedHistory, histClock >>

NextHistory ==
    \/ \E m \in HistoryModes : CompleteAndAppend(m)
    \/ HistoryClear
    \/ HistoryReload
    \/ \E i \in 1..HistoryCapacity : SelectForReplay(i)

InitHistory == Init /\ env = EnvMedia

SpecHistory == InitHistory /\ [][NextHistory]_vars

\* ------------------------------------------- the single-key App (part_009)
\* src/unnamed/part_009 is the App that keeps one key, 'gemini-api-key': its
\* handleSaveKey and handleClearKey are those above for "gemini", its
\* provider calls go through callGeminiService, and its analysis effect
\* calls analyzeImage itself.
GeminiTriggers ==
    { "api key not found", "api key is invalid",
      "requested entity was not found", "permission", "quota",
      "resource_exhausted" }

GeminiNotice ==
    <<"The provided API key has exceeded its quota or is invalid. Please clear it and enter a different key from a project with billing enabled.">>

\* callGeminiService up to the await
callGeminiService(s, op, prm, img) ==
    IF s.localStorage["gemini"] = <<>>
    THEN [ s EXCEPT !.error = <<"Please provide an API key to proceed.">>,
                    !.hasKey["gemini"] = FALSE ]
    ELSE [ s EXCEPT !.error = <<>>,
                    !.inflight = @ \cup {NewRequest(s, op, prm, img, NoInputs)} ]

\* the catch block of callGeminiService
callGeminiServiceCatch(s, msg) ==
    IF \E i \in 1..Len(msg) : ToLower(msg[i]) \in GeminiTriggers
    THEN handleClearKey([s EXCEPT !.error = GeminiNotice], "gemini")
    ELSE [ s EXCEPT !.error = msg ]

\* e.message.includes(...) of the analysis effect: no lower-casing
AnalyzeTriggers == { "API key not found", "API key is invalid" }

\* catch and finally of the analysis effect
analyzeCatch(s, msg) ==
    [ (IF \E i \in 1..Len(msg) : msg[i] \in AnalyzeTriggers
       THEN handleClearKey(
               [s EXCEPT !.error = <<"Your API key is invalid or missing permissions. Please enter a valid key.">>],
               "gemini")
       ELSE s)
      EXCEPT !.contextualPersonSuggestion = <<>>, !.isAnalyzing = FALSE ]

\* useEffect(..., [singleImageData, mode, hasApiKey]) of part_009
analyze(s) ==
    IF s.mode # "image" \/ ~s.hasKey["gemini"]
    THEN [ s EXCEPT !.contextualPersonSuggestion = <<>>, !.isAnalyzing = FALSE ]
    ELSE IF s.singleImageData # None
    THEN LET s1 == [ s EXCEPT !.isAnalyzing = TRUE,
                              !.contextualPersonSuggestion = <<>>,
                              !.error = <<>> ]
         IN IF s.localStorage["gemini"] = <<>>
            THEN analyzeCatch(s1, <<"API Key not found in storage.">>)
            ELSE [ s1 EXCEPT !.inflight =
                      @ \cup {NewRequest(s1, "analyzeImage", <<>>, s.singleImageData, NoInputs)} ]
    ELSE [ s EXCEPT !.contextualPersonSuggestion = <<>>, !.isAnalyzing = FALSE ]

SingleKeyEffects(old, new) ==
    IF \/ new.singleImageData # old.singleImageData
       \/ new.mode # old.mode
       \/ new.hasKey["gemini"] # old.hasKey["gemini"]
    THEN analyze(new)
    ELSE new

handleTranslateClickSingleKey(s) ==
    IF Trim(s.textToTranslate) = <<>>
    THEN [ s EXCEPT !.error = <<"Please enter text to translate.">> ]
    ELSE LET s1 == [ s EXCEPT !.isTranslating = TRUE, !.translationResult = <<>> ]
             s2 == callGeminiService(s1, "translateText", s.textToTranslate, None)
         IN IF Dispatched(s1, s2) THEN s2 ELSE [ s2 EXCEPT !.isTranslating = FALSE ]

\* the handler or effect continues after its await
SettleSingleKey(s, r, o) ==
    LET s0 == [ s EXCEPT !.inflight = @ \ {r} ]
    IN CASE r.op = "analyzeImage" ->
              IF o.ok
              THEN [ s0 EXCEPT !.contextualPersonSuggestion = o.payload, !.isAnalyzing = FALSE ]
              ELSE analyzeCatch(s0, o.msg)
         [] OTHER ->
              IF o.ok
              THEN Continue(s0, r, o.payload)
              ELSE Continue(callGeminiServiceCatch(s0, o.msg), r, <<>>)

SingleKeyStep(new) ==
    /\ Commit(SingleKeyEffects(Cur, new))
    /\ UNCHANGED << invalidated, keyRevoked, keyCleared, rt, env, asm,
                    history, storedHistory, histClock, Viewer >>

SingleKeyImages == {None, "img1"}
SingleKeyTexts == { <<>>, <<"hola mundo">> }
SingleKeyInputs == { <<WS>>, <<"k1">> }

SK_UploadImage(img) ==
    /\ hasKey["gemini"] /\ ~(isLoading \/ isTranslating) /\ img # singleImageData
    /\ Cardinality(inflight) < MaxInflight
    /\ SingleKeyStep([Cur EXCEPT !.singleImageData = img])

SK_SetTextToTranslate(t) ==
    /\ hasKey["gemini"] /\ ~(isLoading \/ isTranslating) /\ t # textToTranslate
    /\ SingleKeyStep([Cur EXCEPT !.textToTranslate = t])

SK_Translate ==
    /\ hasKey["gemini"]
    /\ ~(isTranslating \/ isLoading \/ Trim(textToTranslate) = <<>>)
    /\ Cardinality(inflight) < MaxInflight
    /\ SingleKeyStep(handleTranslateClickSingleKey(Cur))

SK_SaveKey(text) ==
    /\ ~hasKey["gemini"]
    /\ Cardinality(inflight) < MaxInflight
    /\ SingleKeyStep(handleSaveKey([Cur EXCEPT !.keyInput["gemini"] = text], "gemini"))

SK_ClearKey ==
    /\ hasKey["gemini"]
    /\ SingleKeyStep(handleClearKey(Cur, "gemini"))

SK_ProviderAnswers(r, o) ==
    /\ r \in inflight /\ o \in Outcomes(r.op)
    /\ SingleKeyStep(SettleSingleKey(Cur, r, o))

NextSingleKey ==
    \/ \E img \in SingleKeyImages : SK_UploadImage(img)
    \/ \E t \in SingleKeyTexts : SK_SetTextToTranslate(t)
    \/ SK_Translate
    \/ \E text \in SingleKeyInputs : SK_SaveKey(text)
    \/ SK_ClearKey
    \/ \E r \in inflight : \E o \in Outcomes(r.op) : SK_ProviderAnswers(r, o)

InitSingleKey == Init /\ env = EnvEdit

SpecSingleKey == InitSingleKey /\ [][NextSingleKey]_vars

\* ----------------------------------- the selected-key App (App.tsx 478-1235)
\* The second App of src/App.tsx keeps the key in component state (apiKey)
\* with a copy under 'gemini-api-key'; ApiKeyInput is the component of
\* src/unnamed/part_006.  Here hasKey["gemini"] is hasSelectedKey and
\* keyInput["gemini"] is the apiKey state, on an external host (isAiStudio
\* false); `invalidated` records that a call of the key in use was rejected
\* as auth/quota and no key has been saved since.
SelectedKeyNotice ==
    <<"La clave de API ha excedido su cuota, no es valida o no tiene permisos. Ingresa una clave diferente.">>

handleSaveApiKey(s, key) ==
    [ s EXCEPT !.localStorage["gemini"] = key,
               !.keyInput["gemini"] = key,
               !.hasKey["gemini"] = TRUE ]

\* ApiKeyInput.handleSaveClick
handleSaveClick(s, key) ==
    IF Trim(key) # <<>> THEN handleSaveApiKey(s, Trim(key)) ELSE s

\* callApiService of the second App up to the await
callApiServiceSelectedKey(s, op, prm, img) ==
    LET s1 == [ s EXCEPT !.error = <<>> ]
    IN IF s.keyInput["gemini"] = <<>>
       THEN [ s1 EXCEPT !.error = <<"API key is not set.">>, !.hasKey["gemini"] = FALSE ]
       ELSE [ s1 EXCEPT !.inflight =
                 @ \cup {[ NewRequest(s, op, prm, img, NoInputs)
                             EXCEPT !.apiKey = s.keyInput["gemini"],
                                    !.keyUsed = s.keyInput["gemini"] ]} ]

\* its catch block
callApiServiceSelectedKeyCatch(s, msg) ==
    IF IsAuthOrQuotaText(msg)
    THEN [ s EXCEPT !.hasKey["gemini"] = FALSE, !.error = SelectedKeyNotice ]
    ELSE [ s EXCEPT !.error = msg ]

handleTranslateClickSelectedKey(s) ==
    IF Trim(s.textToTranslate) = <<>>
    THEN [ s EXCEPT !.error = <<"Please enter text to translate.">> ]
    ELSE LET s1 == [ s EXCEPT !.isTranslating = TRUE, !.translationResult = <<>> ]
             s2 == callApiServiceSelectedKey(s1, "translateText", s.textToTranslate, None)
         IN IF Dispatched(s1, s2) THEN s2 ELSE [ s2 EXCEPT !.isTranslating = FALSE ]

\* the mount effect: checkApiKey on an external host
checkApiKey(s) ==
    IF s.localStorage["gemini"] # <<>>
    THEN [ s EXCEPT !.keyInput["gemini"] = s.localStorage["gemini"],
                    !.hasKey["gemini"] = TRUE ]
    ELSE [ s EXCEPT !.hasKey["gemini"] = FALSE ]

\* useEffect(..., [singleImageData, mode, apiKey]) of the second App
analyzeSelectedKey(s) ==
    IF s.mode # "image"
    THEN [ s EXCEPT !.contextualPersonSuggestion = <<>>, !.isAnalyzing = FALSE ]
    ELSE IF s.singleImageData # None
    THEN LET s1 == [ s EXCEPT !.isAnalyzing = TRUE, !.contextualPersonSuggestion = <<>> ]
             s2 == callApiServiceSelectedKey(s1, "analyzeImage", <<>>, s.singleImageData)
         IN IF Dispatched(s1, s2) THEN s2 ELSE [ s2 EXCEPT !.isAnalyzing = FALSE ]
    ELSE [ s EXCEPT !.contextualPersonSuggestion = <<>>, !.isAnalyzing = FALSE ]

SelectedKeyEffects(old, new) ==
    IF \/ new.singleImageData # old.singleImageData
       \/ new.mode # old.mode
       \/ new.keyInput["gemini"] # old.keyInput["gemini"]
    THEN analyzeSelectedKey(new)
    ELSE new

SelectedKeyStep(new, inv) ==
    /\ Cardinality(SelectedKeyEffects(Cur, new).inflight) <= MaxInflight
    /\ Commit(SelectedKeyEffects(Cur, new))
    /\ invalidated' = inv
    /\ UNCHANGED << keyRevoked, keyCleared, rt, env, asm,
                    history, storedHistory, histClock, Viewer >>

SelectedKeyInputs == { <<WS>>, <<WS, "k1">>, <<"k2">> }

SelK_SaveClick(key) ==
    /\ ~hasKey["gemini"]
    /\ SelectedKeyStep(handleSaveClick(Cur, key),
                       IF Trim(key) # <<>> THEN {} ELSE invalidated)

SelK_SetTextToTranslate(t) ==
    /\ hasKey["gemini"] /\ ~(isLoading \/ isTranslating) /\ t # textToTranslate
    /\ SelectedKeyStep([Cur EXCEPT !.textToTranslate = t], invalidated)

SelK_UploadImage(img) ==
    /\ hasKey["gemini"] /\ ~(isLoading \/ isTranslating) /\ img # singleImageData
    /\ SelectedKeyStep([Cur EXCEPT !.singleImageData = img], invalidated)

SelK_Translate ==
    /\ hasKey["gemini"]
    /\ ~(isTranslating \/ isLoading \/ Trim(textToTranslate) = <<>>)
    /\ SelectedKeyStep(handleTranslateClickSelectedKey(Cur), invalidated)

SelK_ProviderAnswers(r, o) ==
    /\ r \in inflight /\ o \in Outcomes(r.op)
    /\ LET s0 == [ Cur EXCEPT !.inflight = @ \ {r} ]
       IN IF o.ok
          THEN SelectedKeyStep(Continue(s0, r, o.payload), invalidated)
          ELSE SelectedKeyStep(
                  Continue(callApiServiceSelectedKeyCatch(s0, o.msg), r, <<>>),
                  IF IsAuthOrQuotaText(o.msg) /\ r.apiKey = keyInput["gemini"]
                  THEN invalidated \cup {"gemini"} ELSE invalidated)

\* the useState initial values of a newly mounted App
FreshSelectedKey(s) ==
    [ s EXCEPT !.textToTranslate = <<>>, !.translationResult = <<>>,
               !.isTranslating = FALSE, !.error = <<>>,
               !.singleImageData = None, !.isAnalyzing = FALSE,
               !.contextualPersonSuggestion = <<>>,
               !.keyInput = [p \in Providers |-> <<>>],
               !.inflight = {} ]

\* the page is loaded again: fresh component state, the mount effect runs
SelK_Restart ==
    /\ Cur # checkApiKey(FreshSelectedKey(Cur))
    /\ Commit(checkApiKey(FreshSelectedKey(Cur)))
    /\ UNCHANGED << invalidated, keyRevoked, keyCleared, rt, env, asm,
                    history, storedHistory, histClock, Viewer >>

NextSelectedKey ==
    \/ \E key \in SelectedKeyInputs : SelK_SaveClick(key)
    \/ \E t \in SingleKeyTexts : SelK_SetTextToTranslate(t)
    \/ \E img \in SingleKeyImages : SelK_UploadImage(img)
    \/ SelK_Translate
    \/ \E r \in inflight : \E o \in Outcomes(r.op) : SelK_ProviderAnswers(r, o)
    \/ SelK_Restart

InitSelectedKey ==
    /\ Init /\ env = EnvKeys /\ ~isStudioEnvironment
    /\ localStorage["openrouter"] = <<>> /\ localStorage["gemini"] = <<>>

SpecSelectedKey == InitSelectedKey /\ [][NextSelectedKey]_vars

\* ------------------------------------------- object URLs of the main view
\* The sessions below follow, next to the output slot, the object URLs that
\* the components of the main view create: the preview of ImageUploader and
\* the text links of DownloadButton.  All of them are entries of blobRevokes.
\*
\* DownloadButton: `finalUrl = URL.createObjectURL(blob)` on each render with
\* a recipe or a translation; n is the number of links so created
DownloadButton(assetPresent, type) ==
    IF assetPresent /\ type \in {"recipe", "translation"} THEN 1 ELSE 0

DownloadLinks(s) ==
    IF ~hasActiveApiKey(s) THEN 0
    ELSE (IF ~s.isLoading /\ Len(s.assetUrls) = 1 /\ s.assetType # "productShot"
          THEN DownloadButton(TRUE, s.assetType) ELSE 0)
         + (IF s.mode = "image" /\ ~s.isTranslating
            THEN DownloadButton(s.translationResult # <<>>, "translation") ELSE 0)

\* the render of s
Rendered(s) ==
    [ s EXCEPT !.blobRevokes = @ \o [i \in 1..DownloadLinks(s) |-> 0] ]

\* `if (preview) URL.revokeObjectURL(preview)`
RevokePreview(s, pv) ==
    IF pv # 0 THEN [ s EXCEPT !.blobRevokes[pv] = @ + 1 ] ELSE s

\* reader.onloadend of handleFileChange (single image)
handleFileChange(s, pv, img) ==
    [ RevokePreview([ s EXCEPT !.singleImageData = img ], pv)
        EXCEPT !.blobRevokes = Append(@, 0) ]

handleRemoveSingleImage(s, pv) ==
    RevokePreview([ s EXCEPT !.singleImageData = None ], pv)

\* <ImageUploader key={`${mode}-main`}> is mounted in the main view in Image
\* and Video mode; a new instance starts with preview null
UploaderKept(old, new) ==
    /\ hasActiveApiKey(old) /\ hasActiveApiKey(new)
    /\ new.mode = old.mode /\ new.mode \in {"image", "video"}

ViewStep(new, pv, sel, ev) ==
    LET s2 == Rendered(RunEffects(Cur, new))
    IN /\ ~unmounted
       /\ Len(s2.blobRevokes) <= MaxBlobs
       /\ CommitStep(s2, NoRT, ev)
       /\ preview' = IF UploaderKept(Cur, s2) THEN pv ELSE 0
       /\ selectedImageIndex' = sel
       /\ unmounted' = FALSE

ViewSetPrompt(p) ==
    /\ MainView /\ ~isLoading /\ p # prompt
    /\ ViewStep([Cur EXCEPT !.prompt = p], preview, selectedImageIndex, NoEvent)

ViewPickFile(img) ==
    /\ UploaderEnabled
    /\ ViewStep(handleFileChange(Cur, preview, img), Len(blobRevokes) + 1,
                selectedImageIndex, NoEvent)

ViewRemoveFile ==
    /\ UploaderEnabled /\ preview # 0
    /\ ViewStep(handleRemoveSingleImage(Cur, preview), 0, selectedImageIndex, NoEvent)

ViewAddProductImage(img) ==
    /\ MainView /\ mode = "productShot"
    /\ ~(isLoading \/ isCurrentModeIncompatibleWithProvider)
    /\ Len(productImages) < MaxProductImages
    /\ ViewStep([Cur EXCEPT !.productImages = Append(@, img)], preview,
                selectedImageIndex, NoEvent)

ViewSetTextToTranslate(t) ==
    /\ MainView /\ mode = "image" /\ ~(isLoading \/ isTranslating)
    /\ t # textToTranslate
    /\ ViewStep([Cur EXCEPT !.textToTranslate = t], preview, selectedImageIndex, NoEvent)

ViewGenerate(k) ==
    /\ MainView /\ GenerateButtonEnabled(Cur)
    /\ ViewStep(handleGenerate(Cur, k), preview, selectedImageIndex, NoEvent)

ViewTranslate ==
    /\ MainView /\ TranslateButtonEnabled(Cur)
    /\ ViewStep(handleTranslateClick(Cur), preview, selectedImageIndex, NoEvent)

ViewModeChange(newMode) ==
    /\ MainView /\ ModeButtonEnabled(Cur, newMode) /\ newMode # mode
    /\ ViewStep(handleModeChange(Cur, newMode), preview, selectedImageIndex, NoEvent)

ViewSaveGeminiKey(text) ==
    /\ ~MainView /\ apiProvider = "gemini"
    /\ ViewStep(handleSaveKey([Cur EXCEPT !.keyInput["gemini"] = text], "gemini"),
                preview, selectedImageIndex,
                IF Trim(text) # <<>> THEN Supplied("gemini") ELSE NoEvent)

ViewProviderAnswers(r, o) ==
    /\ r \in inflight /\ r.stage = "call" /\ o \in Outcomes(r.op)
    /\ IF o.ok
       THEN ViewStep(Resolve(Cur, r, o.payload), preview, selectedImageIndex, NoEvent)
       ELSE ViewStep(Reject(Cur, r, o.msg), preview, selectedImageIndex,
                     RejectEvent(r, o.msg))

\* the image viewer.  Modal is an overlay drawn over the main view: the
\* controls of the main view stay mounted and enabled under it and can be
\* operated from the keyboard.
handleImageClick(index) == index

handleCloseModal == NoIndex

handleModalPrev(s, prevIndex) ==
    IF prevIndex # NoIndex
    THEN (prevIndex - 1 + Len(s.assetUrls)) % Len(s.assetUrls)
    ELSE NoIndex

handleModalNext(s, prevIndex) ==
    IF prevIndex # NoIndex
    THEN (prevIndex + 1) % Len(s.assetUrls)
    ELSE NoIndex

\* onImageClick is passed to AssetDisplay for product shots only
ImageClick(index) ==
    /\ MainView /\ ~isLoading /\ assetType = "productShot"
    /\ index \in 0..(Len(assetUrls) - 1)
    /\ ViewStep(Cur, preview, handleImageClick(index), NoEvent)

ModalShown == MainView /\ selectedImageIndex # NoIndex

CloseModal ==
    /\ ModalShown
    /\ ViewStep(Cur, preview, handleCloseModal, NoEvent)

\* showPrev / showNext: assetUrls.length > 1
ModalPrev ==
    /\ ModalShown /\ Len(assetUrls) > 1
    /\ ViewStep(Cur, preview, handleModalPrev(Cur, selectedImageIndex), NoEvent)

ModalNext ==
    /\ ModalShown /\ Len(assetUrls) > 1
    /\ ViewStep(Cur, preview, handleModalNext(Cur, selectedImageIndex), NoEvent)

\* the App is unmounted: React runs the cleanup of the assetUrls effect, the
\* only cleanup that App, ImageUploader and DownloadButton register for
\* object URLs
Unmount ==
    /\ ~unmounted
    /\ Commit([ Cur EXCEPT !.blobRevokes = RevokeAll(@, assetUrls) ])
    /\ unmounted' = TRUE
    /\ UNCHANGED << invalidated, keyRevoked, keyCleared, rt, env, asm,
                    history, storedHistory, histClock, selectedImageIndex, preview >>

\* a session with text, audio and image results and a source image
EnvAssets ==
    [ EnvSwitch EXCEPT !.name = "assets", !.modes = {"image", "speech"},
                       !.sims = {}, !.track = FALSE ]

InitTeardown == InitSession({EnvAssets})

NextTeardown ==
    \/ \E p \in env.prompts : ViewSetPrompt(p)
    \/ \E img \in env.images : ViewPickFile(img)
    \/ ViewRemoveFile
    \/ \E t \in env.texts \cup {<<>>} : ViewSetTextToTranslate(t)
    \/ \E k \in 1..Len(PERSON_ACTIONS) : ViewGenerate(k)
    \/ ViewTranslate
    \/ \E m \in env.modes : ViewModeChange(m)
    \/ \E t \in env.keys : ViewSaveGeminiKey(t)
    \/ \E r \in inflight : \E o \in Outcomes(r.op) : ViewProviderAnswers(r, o)
    \/ Unmount

SpecTeardown == InitTeardown /\ [][NextTeardown]_vars

\* a product-shot session with the image viewer
EnvViewer ==
    [ EnvSwitch EXCEPT !.name = "viewer", !.modes = {"image", "productShot"},
                       !.sims = {}, !.texts = {}, !.track = FALSE ]

InitViewer == InitSession({EnvViewer})

NextViewer ==
    \/ \E p \in env.prompts : ViewSetPrompt(p)
    \/ \E img \in env.images : ViewPickFile(img)
    \/ ViewRemoveFile
    \/ \E img \in env.images : ViewAddProductImage(img)
    \/ \E k \in 1..Len(PERSON_ACTIONS) : ViewGenerate(k)
    \/ \E m \in env.modes : ViewModeChange(m)
    \/ \E t \in env.keys : ViewSaveGeminiKey(t)
    \/ \E r \in inflight : \E o \in Outcomes(r.op) : ViewProviderAnswers(r, o)
    \/ \E i \in 0..1 : ImageClick(i)
    \/ CloseModal
    \/ ModalPrev
    \/ ModalNext

SpecViewer == InitViewer /\ [][NextViewer]_vars

\* ================================================================= claims
\* a call issued by this step: a request whose id no request had before
IssuedNow(r) == r \in inflight' /\ \A q \in inflight : q.id # r.id

\* a call settled with the auth/quota notice in this step
AuthFailureNow ==
    /\ keyRevoked' /\ error' = AuthNotice
    /\ inflight' # inflight /\ inflight' \subseteq inflight

\* C1 (as amended): once a call of provider p has failed with an
\* auth/quota-classified error, p's stored key is removed and p's key flag is
\* false, no call is issued with provider p until a key for p is saved or
\* selected, and the step that handles the failure leaves the prompt as it was.
C1_RevokedProviderBlocked ==
    [][ /\ \A p \in invalidated' : localStorage'[p] = <<>> /\ ~hasKey'[p]
        /\ \A r \in inflight' : IssuedNow(r) => r.provider \notin invalidated'
        /\ AuthFailureNow => prompt' = prompt ]_vars

C1_Witness ==
    /\ invalidated # {} /\ error = AuthNotice /\ prompt # <<>>
    /\ apiProvider \in invalidated /\ ~hasActiveApiKey(Cur)

\* C1 (as stated): after an auth/quota-classified failure no call at all is
\* issued until some key is saved or selected.
C1_NoDispatchAfterRevocation ==
    [][ \A r \in inflight' : IssuedNow(r) => ~keyRevoked' ]_vars

\* C2 (as stated): every object URL that left the main output slot has been
\* revoked exactly once, and the one still displayed has not been revoked.
Displayed(h) == \E i \in DOMAIN assetUrls : assetUrls[i].handle = h

C2_EachHandleReleasedOnce ==
    \A h \in DOMAIN blobRevokes :
        blobRevokes[h] = IF Displayed(h) THEN 0 ELSE 1

\* C3 (as stated): when a call fails with a failure that is not of the
\* auth/quota kind, the stored keys, the key flags and the user's inputs stay
\* as they were.
NonAuthFailures(r) == { o \in Outcomes(r.op) : ~o.ok /\ o.kind # "AuthOrQuota" }

C3_NonAuthFailureKeepsCredential ==
    [][ \A r \in inflight : \A o \in NonAuthFailures(r) :
            ProviderAnswers(r, o) =>
                /\ error' = o.msg
                /\ localStorage' = localStorage /\ hasKey' = hasKey
                /\ prompt' = prompt /\ singleImageData' = singleImageData
                /\ productImages' = productImages /\ removeText' = removeText
                /\ addPerson' = addPerson /\ similarity' = similarity ]_vars

\* the video request r has left the output of this step
SettledNow(r) == r \in inflight /\ \A q \in inflight' : q.id # r.id

VideoSuccessNow(r) ==
    /\ SettledNow(r) /\ ~isLoading'
    /\ assetType' = "video" /\ Len(assetUrls') = 1
    /\ assetUrls'[1].scheme = "blob" /\ assetUrls'[1].origin = r.origin
    /\ blobRevokes'[assetUrls'[1].handle] = 0
    /\ error' = error

VideoDownloadErrorNow(r) ==
    /\ SettledNow(r) /\ ~isLoading'
    /\ error' = DownloadFailureText
    /\ assetUrls' = assetUrls /\ assetType' = assetType

\* C4 (as amended): while a video request polls, every status check so far
\* was non-terminal; once a check is terminal-success exactly k+1 checks have
\* been made for k non-terminal answers and none is made afterwards; the
\* request then settles in one step, with the video when the download of the
\* result succeeds and with the download error when it does not.
C4_PollsThenSettlesOnce ==
    [][ /\ \A r \in inflight' :
              /\ r.stage = "polling" => r.polls = r.nonterm
              /\ r.stage = "download" =>
                    (r.polls = 0 /\ r.nonterm = 0) \/ r.polls = r.nonterm + 1
        /\ \A r \in inflight :
              r.stage = "download" =>
                 \/ r \in inflight'
                 \/ VideoSuccessNow(r)
                 \/ VideoDownloadErrorNow(r) ]_vars

C4_Witness ==
    \E r \in inflight :
        r.op = "generateVideo" /\ r.stage = "download" /\ r.polls = 3 /\ r.nonterm = 2

\* C4 (as stated): a video request whose status checks were non-terminal k
\* times and then terminal-success settles with the video.
C4_TerminalSuccessSettlesWithVideo ==
    [][ \A r \in inflight :
            (r.stage = "download" /\ r.polls = r.nonterm + 1 /\ r \notin inflight')
                => VideoSuccessNow(r) ]_vars

\* the instruction clause the contract fixes for each similarity band
BandClause(band) ==
    CASE band = 25 -> "use the original image as a loose inspiration for the new image"
      [] band = 50 -> "apply the changes described, but feel free to creatively reinterpret the original image"
      [] band = 75 -> "apply the changes described while maintaining a strong resemblance to the original image's style and composition"
      [] band = 100 -> "make only the changes described and keep the rest of the image identical to the original"

BandClauses == { BandClause(b) : b \in SIMILARITY_SUGGESTIONS }

Last(seq) == seq[Len(seq)]

\* C5 (as stated): an assembled Image-mode prompt ends with the fixed clause
\* of the selected band, and holds none of the four clauses when similarity
\* is unset.
C5_BandAppendsItsFixedClause ==
    asm.done =>
        IF similarity \in SIMILARITY_SUGGESTIONS
        THEN asm.out # <<>> /\ Last(asm.out) = BandClause(similarity)
        ELSE \A i \in DOMAIN asm.out : asm.out[i] \notin BandClauses

\* the request r was issued by a submission of "a red bicycle" with
\* similarity 50 and neither flag
RedBicycleAt50(r) ==
    /\ r.op = "generateImage" /\ r.inputs.prompt = <<"a red bicycle">>
    /\ r.inputs.similarity = 50 /\ ~r.inputs.addPerson /\ ~r.inputs.removeText

RedBicycleFinalPrompt ==
    "a red bicycle, apply the changes described, but feel free to creatively reinterpret the original image"

OneCallIssued == Cardinality({ q \in inflight' : IssuedNow(q) }) = 1

PromptPart == IF Trim(prompt) # <<>> THEN << Trim(prompt) >> ELSE << >>
PersonPart ==
    IF addPerson
    THEN << IF contextualPersonSuggestion # <<>>
            THEN contextualPersonSuggestion
            ELSE << "una persona " \o PERSON_ACTIONS[asm.k] >> >>
    ELSE << >>
RemoveTextPart == IF removeText THEN << << "remove any text from the image" >> >> ELSE << >>
SimilarityPart ==
    IF singleImageData # None /\ similarity \in SIMILARITY_SUGGESTIONS
    THEN << << BandClause(similarity) >> >>
    ELSE << >>

RECURSIVE JoinAll(_)
JoinAll(parts) ==
    IF parts = << >> THEN << >>
    ELSE IF Len(parts) = 1 THEN parts[1]
    ELSE parts[1] \o << ", " >> \o JoinAll(Tail(parts))

C8_RoundTripKeepsModeState ==
    rt.phase = 2 => ModeState(Cur) = rt.snap[1]

\* C9 (as stated): the active mode never displays an output asset that a
\* request issued in another mode produced.
C9_AssetsBelongToActiveMode ==
    \A i \in DOMAIN assetUrls : assetUrls[i].origin = mode

Outstanding(op) == \E r \in inflight : r.op = op

\* C10 (as stated): in Image mode with a prompt and a translation text, a
\* translation can be issued while an image generation is outstanding, and an
\* image generation while a translation is outstanding.
C10_ImageAndTranslationOverlap ==
    ( /\ mode = "image" /\ MainView /\ apiProvider = "gemini"
      /\ Trim(prompt) # <<>> /\ Trim(textToTranslate) # <<>> ) =>
        /\ (Outstanding("generateImage") /\ ~Outstanding("translateText"))
              => TranslateButtonEnabled(Cur)
        /\ (Outstanding("translateText") /\ ~Outstanding("generateImage"))
              => GenerateButtonEnabled(Cur)

KeyRemovedNow == \E p \in Providers : localStorage[p] # <<>> /\ localStorage'[p] = <<>>

\* in the next state the request r is still awaited with the credential it
\* was issued with
KeepsSnapshot(r) ==
    \A q \in inflight' :
        q.id = r.id =>
            q.apiKey = r.apiKey /\ q.provider = r.provider /\ q.keyUsed = r.apiKey

\* C11 (as amended): a request carries the key read at dispatch, which is the
\* stored non-empty key of the current provider, and every later call of the
\* request (status checks included) presents that key; a step that removes a
\* stored key settles no request but the one whose failure removed it; no
\* request is issued for a provider that has no stored key.
C11_CredentialSnapshot ==
    [][ /\ \A q \in inflight' :
              IssuedNow(q) =>
                 /\ q.provider = apiProvider'
                 /\ q.apiKey = localStorage'[q.provider] /\ q.apiKey # <<>>
                 /\ q.keyUsed = q.apiKey
        /\ \A r \in inflight : KeepsSnapshot(r)
        /\ KeyRemovedNow =>
              \/ inflight' = inflight
              \/ /\ error' = AuthNotice
                 /\ inflight' \subseteq inflight
                 /\ Cardinality(inflight') = Cardinality(inflight) - 1 ]_vars

C11_Witness ==
    \E r \in inflight :
        /\ r.op = "generateVideo" /\ r.stage = "download" /\ r.polls >= 2
        /\ r.apiKey = <<"k1">> /\ r.keyUsed = <<"k1">>
        /\ localStorage[r.provider] # r.apiKey

\* C11 (as stated): requests keep the key read at dispatch, and once a stored
\* key was removed no request at all is issued until some key is saved or
\* selected.
C11_SnapshotAndNoDispatchAfterClearing ==
    [][ /\ \A r \in inflight : KeepsSnapshot(r)
        /\ \A q \in inflight' : IssuedNow(q) => ~keyCleared' ]_vars

HasPrompt == Trim(prompt) # <<>>

\* the minimum-input rule of the active mode
ModeRule ==
    CASE mode = "image" ->
           \/ HasPrompt
           \/ /\ singleImageData # None
              /\ (removeText \/ addPerson \/ similarity \in SIMILARITY_SUGGESTIONS)
      [] mode \in {"video", "recipe", "speech"} -> HasPrompt
      [] mode = "productShot" -> Len(productImages) >= 1
      [] mode = "linkRecipe" -> Len(Trim(prompt)) = 1 /\ Trim(prompt)[1] \in UrlTokens

GenerationOps ==
    { "generateImage", "generateVideo", "generateRecipe", "generateRecipeFromLink",
      "generateSpeech", "generateProductShot" }

GenerateNow == \E k \in 1..Len(PERSON_ACTIONS) : Generate(k)

NothingIssued == \A q \in inflight' : ~IssuedNow(q)

\* C12 (as amended): a generation operation is issued only when the rule of
\* the active mode holds; a translation only with a non-empty text to
\* translate; an image analysis only with an uploaded image in Image mode.  A
\* Generate that issues nothing sets an error and leaves the loading flag and
\* the output slot as they were.
C12_MinimumInputAtDispatch ==
    [][ /\ \A q \in inflight' :
              IssuedNow(q) =>
                 CASE q.op \in GenerationOps -> ModeRule /\ q.origin = mode
                   [] q.op = "translateText" -> Trim(textToTranslate) # <<>>
                   [] q.op = "analyzeImage" -> singleImageData' # None /\ mode' = "image"
        /\ (GenerateNow /\ NothingIssued) =>
              /\ error' # <<>> /\ isLoading' = isLoading
              /\ assetUrls' = assetUrls /\ assetType' = assetType ]_vars

C12_Witness ==
    /\ mode = "linkRecipe" /\ HasPrompt /\ inflight = {} /\ ~isLoading
    /\ error = <<"Por favor, introduce una URL valida.">>

\* C12 (as stated): whatever the operation, it is issued only when the rule
\* of the active mode holds.
C12_EveryOperationNeedsModeRule ==
    [][ \A q \in inflight' : IssuedNow(q) => ModeRule ]_vars

\* ---------------------------------------------------------------- C13
AppendNow == \E m \in HistoryModes : CompleteAndAppend(m)

KeptOnAppend == 
    IF Len(history) = HistoryCapacity THEN SubSeq(history, 1, Len(history) - 1) ELSE history

\* C13: the history log never holds more than HistoryCapacity items, and an
\* append puts the new item in front of the items it keeps: all the former
\* items in their order, less exactly the oldest one when the log was full.
C13_BoundedOldestFirstEviction ==
    [][ /\ Len(history') <= HistoryCapacity
        /\ AppendNow => /\ history' # <<>>
                        /\ Head(history').id = histClock'
                        /\ Tail(history') = KeptOnAppend ]_vars

\* a full log whose oldest item is no longer the first one ever appended
C13_Witness ==
    /\ Len(history) = HistoryCapacity
    /\ histClock > HistoryCapacity
    /\ history[Len(history)].id = histClock - HistoryCapacity + 1
    /\ \A i \in 1..(Len(history) - 1) : history[i].id = history[i + 1].id + 1

\* ---------------------------------------------------------------- C14
ReplayedFieldsOf(item) ==
    /\ mode' = item.mode
    /\ prompt' = item.prompt
    /\ assetUrls' = item.assetUrls
    /\ assetType' = item.assetType
    /\ translationResult' = item.translationResult

Released(a) == a.scheme = "blob" /\ blobRevokes'[a.handle] > 0

ClassifiedAuthOrQuota(msg) == \E i \in 1..Len(msg) : ToLower(msg[i]) \in GeminiTriggers

\* C15: whichever provider operation fails, a generation call or the
\* background analysis, a failure whose message is classified as auth/quota
\* leaves the credential invalidated: the stored key removed and the
\* has-key flag down.
C15_AuthFailureInvalidatesForEveryOperation ==
    [][ \A r \in inflight : \A o \in Outcomes(r.op) :
          (SK_ProviderAnswers(r, o) /\ ~o.ok /\ ClassifiedAuthOrQuota(o.msg))
             => (localStorage'["gemini"] = <<>> /\ ~hasKey'["gemini"]) ]_vars

\* ---------------------------------------------------------------- C16
ReportedFailures == {"failed", "failedRights"}

\* C16: when a status check of the polling loop returns the operation
\* failed with a message, the error shown is that message, word for word.
C16_VideoFailureShownVerbatim ==
    [][ \A r \in inflight : \A opState \in ReportedFailures :
          VideoPolled(r, opState) => error' = VideoFailureText(opState) ]_vars

\* ---------------------------------------------------------------- C17
StillPolling(r) == \E q \in inflight' : q.id = r.id /\ q.stage = "polling"

TerminalStates == OperationStates \ {"pending"}

VideoOutstanding == \E r \in inflight : r.op = "generateVideo"

\* C17: a status check answered "not done" is always followed by another
\* check (the request stays in the loop with one more check counted, and
\* the loading flag stays up), a request leaves the loop only on a check
\* that returns a terminal state or that fails; and, the checks being
\* answered and the provider eventually answering terminal, every video
\* request eventually settles with the loading flag cleared.
C17_PollsUntilTerminalThenSettles ==
    /\ [][ \A r \in inflight :
             /\ VideoPolled(r, "pending") =>
                  \E q \in inflight' : /\ q.id = r.id /\ q.stage = "polling"
                                       /\ q.polls = r.polls + 1
             /\ (r.stage = "polling" /\ ~StillPolling(r)) =>
                  \/ \E st \in TerminalStates : VideoPolled(r, st)
                  \/ \E o \in SdkErrors : VideoCallFailed(r, o)
             /\ (r.op = "generateVideo" /\ ~\E q \in inflight' : q.id = r.id) =>
                  ~isLoading' ]_vars
    /\ VideoOutstanding ~> (~VideoOutstanding /\ ~isLoading)

\* a request that has had every check the bound allows answered "not done"
\* and is still in the loop
C17_Witness ==
    \E r \in inflight : /\ r.op = "generateVideo" /\ r.stage = "polling"
                        /\ r.polls = MaxPolls - 1 /\ r.nonterm >= r.polls
                        /\ isLoading

\* ---------------------------------------------------------------- C18
OutputSlotFilled(r) ==
    IF r.op = "translateText" THEN translationResult' # <<>> ELSE assetUrls' # <<>>

\* C18: when a dispatched generation or translation call comes back, with a
\* result or with a failure, the request's output slot holds a non-empty
\* result or the error slot holds a message.
C18_SettledWithResultOrError ==
    [][ \A r \in inflight : \A o \in Outcomes(r.op) :
          (r.op # "analyzeImage" /\ ProviderAnswers(r, o))
             => (OutputSlotFilled(r) \/ error' # <<>>) ]_vars

\* ---------------------------------------------------------------- C19
\* C19: a call rejected as auth/quota leaves no stored copy of the key and
\* the no-credential view showing, and loading the page again while the
\* rejected key has not been replaced does not make a key active.
C19_InvalidationPurgesDurableCopy ==
    [][ /\ \A r \in inflight : \A o \in Outcomes(r.op) :
             (SelK_ProviderAnswers(r, o) /\ ~o.ok /\ IsAuthOrQuotaText(o.msg))
                => (localStorage'["gemini"] = <<>> /\ ~hasKey'["gemini"])
        /\ (SelK_Restart /\ "gemini" \in invalidated) => ~hasKey'["gemini"] ]_vars

\* ---------------------------------------------------------------- C20
SaveNow(p, t) ==
    IF p = "gemini" THEN SaveGeminiKey(t) ELSE SaveOpenRouterKey(t)

C21_NoHandleOutlivesTeardown ==
    unmounted => \A h \in DOMAIN blobRevokes : blobRevokes[h] >= 1

\* ---------------------------------------------------------------- C22
FallbackClauses ==
    { "una persona caminando", "una persona leyendo un libro",
      "una persona mirando el cielo", "una persona sentado en un banco",
      "una persona bailando", "una persona tomando una foto" }

\* what the assembled prompt holds after the user's trimmed prompt and its
\* separator
AfterUserPrompt ==
    LET n == Len(Trim(prompt))
    IN IF n = 0 THEN asm.out ELSE SubSeq(asm.out, n + 2, Len(asm.out))

EndsClause(rest, n) == Len(rest) = n \/ rest[n + 1] = ", "

\* C22: with the person flag set, the clause that follows the user's prompt
\* is the cached suggestion when there is one, and otherwise "una persona "
\* with one of the six fixed action phrases, nothing else; without the flag
\* no such clause is added.
C22_PersonClause ==
    asm.done =>
        IF addPerson
        THEN IF contextualPersonSuggestion # <<>>
             THEN /\ Len(AfterUserPrompt) >= Len(contextualPersonSuggestion)
                  /\ SubSeq(AfterUserPrompt, 1, Len(contextualPersonSuggestion))
                        = contextualPersonSuggestion
                  /\ EndsClause(AfterUserPrompt, Len(contextualPersonSuggestion))
             ELSE /\ AfterUserPrompt # <<>>
                  /\ Head(AfterUserPrompt) \in FallbackClauses
                  /\ EndsClause(AfterUserPrompt, 1)
        ELSE \A i \in DOMAIN AfterUserPrompt :
                /\ AfterUserPrompt[i] \notin FallbackClauses
                /\ <<AfterUserPrompt[i]>> \notin AsmSuggestions

C22_Witness ==
    /\ asm.done /\ addPerson /\ contextualPersonSuggestion = <<>>
    /\ Trim(prompt) = <<"a red bicycle">> /\ removeText
    /\ SubSeq(asm.out, 1, 3) = <<"a red bicycle", ", ", "una persona tomando una foto">>

\* ---------------------------------------------------------------- C23
SlotWritten(r) ==
    IF r.op = "translateText"
    THEN translationResult' # <<>> /\ translationResult' # translationResult
    ELSE assetUrls' # <<>> /\ assetUrls' # assetUrls

ErrorWritten(r) == error' # <<>> /\ (error' # error \/ ~SlotWritten(r))

BusyFlagAfter(r) == IF r.op = "translateText" THEN isTranslating' ELSE isLoading'

TranslateNow == Translate

\* C23: the step in which a generation or translation request leaves the
\* in-flight set writes either a result to the request's output slot or an
\* error, never both and never neither, and leaves the slot's busy flag
\* cleared; a Generate or Translate that finds no key to dispatch with
\* leaves the flag cleared too.
C23_SettlesOnceWithResultOrError ==
    [][ /\ \A r \in inflight :
              (r.op # "analyzeImage" /\ SettledNow(r)) =>
                 /\ SlotWritten(r) # ErrorWritten(r)
                 /\ ~BusyFlagAfter(r)
        /\ (GenerateNow /\ NothingIssued) => ~isLoading'
        /\ (TranslateNow /\ NothingIssued) => ~isTranslating' ]_vars

\* ---------------------------------------------------------------- C24
AnalysisOutstanding(reqs) == \E q \in reqs : q.op = "analyzeImage"

\* C24: an analysis that comes back writes the suggestion slot only if the
\* image it was given is still the uploaded one and Image mode is still
\* active; and whenever no analysis is outstanding, the suggestion is empty
\* or an image is uploaded in Image mode.
C24_StaleAnalysisNotApplied ==
    [][ /\ \A r \in inflight :
              ( /\ r.op = "analyzeImage" /\ SettledNow(r)
                /\ contextualPersonSuggestion' # <<>> ) =>
                 (r.image = singleImageData' /\ mode' = "image")
        /\ ~AnalysisOutstanding(inflight') =>
              \/ contextualPersonSuggestion' = <<>>
              \/ (singleImageData' # None /\ mode' = "image") ]_vars

\* ---------------------------------------------------------------- C25
\* the error an attempt can produce when its call fails with msg
ErrorOfFailure(msg) == IF IsAuthOrQuotaText(msg) THEN AuthNotice ELSE msg

VideoErrors ==
    { ErrorOfFailure(VideoFailureText(st)) : st \in OperationStates }
       \cup { ErrorOfFailure(o.msg) : o \in SdkErrors }
       \cup { ErrorOfFailure(DownloadFailureText) }

C26_FlagMatchesStorage ==
    ~studioStartup => \A p \in Providers : hasKey[p] <=> (localStorage[p] # <<>>)

\* the OpenRouter key was removed by a failed call, and the Gemini key was
\* then selected in the AI Studio dialog
C26_Witness ==
    /\ ~studioStartup /\ ~studioDialog
    /\ "openrouter" \in invalidated /\ ~hasKey["openrouter"]
    /\ hasKey["gemini"] /\ localStorage["gemini"] = ManagedKey

\* ---------------------------------------------------------------- C27
StartupResolvesNow == \E b \in BOOLEAN : StartupCheckResolved(b)

UserKey(store) == store["gemini"] \notin { <<>>, ManagedKey }

\* C27: when the startup key check or the key-selection dialog resolves
\* while localStorage holds a key the user saved, that key stays; and when
\* the startup check resolves after the user cleared the key, no key is
\* stored.
C27_UserKeySurvivesLateResolution ==
    [][ /\ (StartupResolvesNow \/ StudioDialogClosed) =>
              (UserKey(localStorage) => localStorage'["gemini"] = localStorage["gemini"])
        /\ StartupResolvesNow =>
              ((keyCleared /\ localStorage["gemini"] = <<>>)
                  => localStorage'["gemini"] = <<>>) ]_vars

\* ---------------------------------------------------------------- C28
MainRequests == { r \in inflight : r.op \in GenerationOps }

\* C28: isLoading holds exactly while a generation request is outstanding,
\* isTranslating exactly while a translation request is, and there is never
\* more than one generation or translation request outstanding.
C28_BusyFlagsMatchRequests ==
    /\ isLoading <=> (MainRequests # {})
    /\ isTranslating <=> Outstanding("translateText")
    /\ Cardinality({ r \in inflight : r.op \in GenerationOps \cup {"translateText"} }) <= 1

\* a generation is awaited after the user left its mode and cleared the key
C28_Witness ==
    /\ isLoading /\ ~MainView
    /\ \E r \in MainRequests : r.origin # mode /\ localStorage[r.provider] = <<>>

\* ---------------------------------------------------------------- C29
ViewerOpen == selectedImageIndex # NoIndex

\* C29: after every step, an open image viewer points at one of the output
\* assets (0 <= selectedImageIndex < number of assets); next moves to
\* (index + 1) modulo the number of assets and previous takes that move back.
C29_ViewerIndexInRange ==
    [][ /\ selectedImageIndex' # NoIndex =>
              (0 <= selectedImageIndex' /\ selectedImageIndex' < Len(assetUrls'))
        /\ ModalNext =>
              /\ selectedImageIndex' = (selectedImageIndex + 1) % Len(assetUrls)
              /\ handleModalPrev(Cur, selectedImageIndex') = selectedImageIndex ]_vars

\* ---------------------------------------------------------------- C30
ImageGenerationEnabled ==
    mode = "image" /\ MainView /\ GenerateButtonEnabled(Cur)

FinalPrompts ==
    { AssemblePrompt(prompt, addPerson, contextualPersonSuggestion, k,
                     removeText, singleImageData, similarity) :
        k \in 1..Len(PERSON_ACTIONS) }

\* C30: wherever the Generate button is enabled in Image mode, the prompt
\* the handler would assemble is not blank, and every generateImage call
\* that is issued carries a non-blank prompt.
C30_ImagePromptNeverEmpty ==
    [][ /\ ImageGenerationEnabled => \A p \in FinalPrompts : Trim(p) # <<>>
        /\ \A q \in inflight' :
              (IssuedNow(q) /\ q.op = "generateImage") => Trim(q.prompt) # <<>> ]_vars

\* a source image, a blank user prompt and the similarity band alone
C30_Witness ==
    \E r \in inflight :
        /\ r.op = "generateImage" /\ r.image # None
        /\ Trim(r.inputs.prompt) = <<>> /\ r.inputs.prompt # <<>>
        /\ ~r.inputs.removeText /\ ~r.inputs.addPerson
        /\ r.prompt = <<SimilarityPrompt(100)>>

====
